---------------------------- MODULE Spec2Model ----------------------------
(***************************************************************************)
(* Model of IntelligentRouter (backend/src/optimize/rules.py): the         *)
(* adjacency view, the route cache, the active-route table and the reroute *)
(* ledger, driven by telemetry frames.                                     *)
(*                                                                         *)
(* Numbers.  The code computes on floats; the model uses integers.  Link   *)
(* metrics are integers, a route score is the code's score multiplied by   *)
(* 2000 * max_hops (an integer for integer metrics), and a percentage      *)
(* that the code obtains by a division is kept as the fraction             *)
(* [num, den].  Timestamps (time.time()) are left out of the records.      *)
(*                                                                         *)
(* Python values.  None is the empty sequence and a present Optional is a  *)
(* one-element sequence.  A dict whose iteration order matters is a        *)
(* sequence of entries in insertion order; other dicts are functions.      *)
(***************************************************************************)
EXTENDS Integers, Sequences, FiniteSets, TLC

VARIABLES
    topology_cache,   \* node id -> ordered dict: neighbour -> link ids
    route_cache,      \* (source, target) -> list of Route
    active_routes,    \* (source, target) -> Route
    reroute_history,  \* list of RerouteAction
    call,             \* the last operation called and its arguments
    routes,           \* what find_all_routes returned (last call)
    analysis,         \* what analyze_network_health returned (last call)
    suggestions,      \* what the last suggest_reroutes returned, while the
                      \* caller holds it (until its next call of
                      \* update_topology, find_all_routes or suggest_reroutes)
    success,          \* what execute_reroute returned (last call)
    stats,            \* what get_reroute_statistics returned (last call)
    raised,           \* the exception the last call raised, or "none"
    callers           \* concurrent caller -> its position in its tick and
                      \* the locals of the method it is in

vars == <<topology_cache, route_cache, active_routes, reroute_history,
          call, routes, analysis, suggestions, success, stats, raised, callers>>

-----------------------------------------------------------------------------
(* schemas.py *)

HEALTHY  == "healthy"
DEGRADED == "degraded"
FAILED   == "failed"
OFFLINE  == "offline"

ComponentStatus == {HEALTHY, DEGRADED, FAILED, OFFLINE}

Component(id, status) == [id |-> id, status |-> status]

Link(id, s, t, status, lat, bw, util, err) ==
    [id |-> id, source_id |-> s, target_id |-> t, status |-> status,
     latency_ms |-> lat, bandwidth_gbps |-> bw, utilization |-> util,
     error_rate |-> err]

TelemetryFrame(components, links) == [components |-> components, links |-> links]

-----------------------------------------------------------------------------
(* IntelligentRouter.__init__ : preferences and thresholds *)

max_hops == 4

\* weights in thousandths: 0.4, 0.3, 0.3 and the 0.1 hop bonus
latency_weight     == 400
bandwidth_weight   == 300
utilization_weight == 300
hop_weight         == 100

latency_ms_threshold      == 10
utilization_pct_threshold == 85
error_rate_pct_threshold  == 5

\* float('inf'), the bandwidth of the empty path
Infinity == 1000000

Min(a, b) == IF a <= b THEN a ELSE b
Max(a, b) == IF a >= b THEN a ELSE b

None == <<>>
Some(x) == <<x>>

-----------------------------------------------------------------------------
(* update_topology *)

HasKey(d, k) == \E i \in 1..Len(d) : d[i].nbr = k

AddKey(d, k) == IF HasKey(d, k) THEN d ELSE Append(d, [nbr |-> k, ids |-> <<>>])

AppendId(d, k, id) ==
    [i \in 1..Len(d) |-> IF d[i].nbr = k
                         THEN [d[i] EXCEPT !.ids = Append(@, id)]
                         ELSE d[i]]

\* InitComponents for the components whose status is HEALTHY only
InitComponentsHealthyOnly(T) ==
    [n \in {T.components[i].id : i \in {j \in 1..Len(T.components) :
                                          T.components[j].status = HEALTHY}} |-> <<>>]

\* for component in telemetry.components: self.topology_cache[component.id] = {}
InitComponents(T) ==
    [n \in {T.components[i].id : i \in 1..Len(T.components)} |-> <<>>]

\* The body of the loop over links for one link: the dict after it and
\* whether a KeyError left the loop.  The lookups are made in the order of
\* the code, so a KeyError on the target leaves the source's entry created.
AddLink(topo, l) ==
    IF l.status # HEALTHY THEN [topo |-> topo, raised |-> "none"]
    ELSE IF l.source_id \notin DOMAIN topo THEN [topo |-> topo, raised |-> "KeyError"]
    ELSE LET t1 == [topo EXCEPT ![l.source_id] = AddKey(@, l.target_id)]
         IN  IF l.target_id \notin DOMAIN t1 THEN [topo |-> t1, raised |-> "KeyError"]
             ELSE LET t2 == [t1 EXCEPT ![l.target_id] = AddKey(@, l.source_id)]
                      t3 == [t2 EXCEPT ![l.source_id] = AppendId(@, l.target_id, l.id)]
                      t4 == [t3 EXCEPT ![l.target_id] = AppendId(@, l.source_id, l.id)]
                  IN  [topo |-> t4, raised |-> "none"]

RECURSIVE AddLinks(_, _, _)
AddLinks(topo, links, i) ==
    IF i > Len(links) THEN [topo |-> topo, raised |-> "none"]
    ELSE LET r == AddLink(topo, links[i])
         IN  IF r.raised # "none" THEN r ELSE AddLinks(r.topo, links, i + 1)

\* topology_cache after update_topology(T), and the exception if any
UpdateTopology(T) == AddLinks(InitComponents(T), T.links, 1)

-----------------------------------------------------------------------------
(* _get_link_metrics, _assess_route_quality, _route_score *)

LinkJoins(l, a, b) ==
    \/ l.source_id = a /\ l.target_id = b
    \/ l.source_id = b /\ l.target_id = a

NoMetrics == [valid |-> FALSE, latency |-> 0, bandwidth |-> 0, utilization |-> 100]

RECURSIVE get_link_metrics_from(_, _, _, _)
get_link_metrics_from(links, i, a, b) ==
    IF i > Len(links) THEN NoMetrics
    ELSE IF LinkJoins(links[i], a, b)
         THEN IF links[i].status = HEALTHY
              THEN [valid |-> TRUE, latency |-> links[i].latency_ms,
                    bandwidth |-> links[i].bandwidth_gbps,
                    utilization |-> links[i].utilization]
              ELSE NoMetrics
         ELSE get_link_metrics_from(links, i + 1, a, b)

get_link_metrics(a, b, T) == get_link_metrics_from(T.links, 1, a, b)

\* _assess_route_quality with <= for <
assess_route_quality_inclusive(latency, bandwidth, utilization) ==
    IF latency <= 2 /\ utilization <= 50 THEN "excellent"
    ELSE IF latency <= 5 /\ utilization <= 70 THEN "good"
    ELSE IF latency <= 10 /\ utilization <= 85 THEN "fair"
    ELSE "poor"

assess_route_quality(latency, bandwidth, utilization) ==
    IF latency < 2 /\ utilization < 50 THEN "excellent"
    ELSE IF latency < 5 /\ utilization < 70 THEN "good"
    ELSE IF latency < 10 /\ utilization < 85 THEN "fair"
    ELSE "poor"

\* Route(...) with __post_init__: hops = len(path) - 1
Route(s, t, path, lat, bw, util, quality) ==
    [source_id |-> s, target_id |-> t, path |-> path, total_latency |-> lat,
     min_bandwidth |-> bw, max_utilization |-> util, quality |-> quality,
     hops |-> Len(path) - 1]

\* _route_score, multiplied by 2000 * max_hops:
\*   latency_score     = max(0, 20 - lat) / 20
\*   bandwidth_score   = min(1, bw / 100)
\*   utilization_score = max(0, 100 - util) / 100
\*   hop_score         = max(0, max_hops - hops) / max_hops
\* _route_score with the utilization itself as utilization_score
route_score_rewarding_load(r) ==
      max_hops * (latency_weight \div 10) * Max(0, 20 - r.total_latency)
    + max_hops * (bandwidth_weight \div 50) * Min(100, r.min_bandwidth)
    + max_hops * (utilization_weight \div 50) * Min(100, r.max_utilization)
    + 2 * hop_weight * Max(0, max_hops - r.hops)

route_score(r) ==
      max_hops * (latency_weight \div 10) * Max(0, 20 - r.total_latency)
    + max_hops * (bandwidth_weight \div 50) * Min(100, r.min_bandwidth)
    + max_hops * (utilization_weight \div 50) * Max(0, 100 - r.max_utilization)
    + 2 * hop_weight * Max(0, max_hops - r.hops)


-----------------------------------------------------------------------------
(* find_all_routes *)

\* The closure of dfs_routes: the arguments of find_all_routes and the
\* adjacency view the search reads.
SearchContext(s, t, topo, T) ==
    [source_id |-> s, target_id |-> t, topo |-> topo, telemetry |-> T]

RECURSIVE dfs_routes(_, _, _, _, _, _, _)
RECURSIVE dfs_neighbors(_, _, _, _, _, _, _, _)

\* dfs_routes without its test of the path's length
dfs_routes_unbounded(ctx, current, path, lat, bw, util, visited) ==
    IF current = ctx.target_id /\ Len(path) > 1
    THEN << Route(ctx.source_id, ctx.target_id, path, lat, bw, util,
                  assess_route_quality(lat, bw, util)) >>
    ELSE IF current \in visited THEN <<>>
    ELSE IF current \in DOMAIN ctx.topo
         THEN dfs_neighbors(ctx, current, path, lat, bw, util,
                           visited \cup {current}, 1)
         ELSE <<>>

\* dfs_routes(current, target, path, total_latency, min_bandwidth, max_util):
\* the routes it appends, in the order it appends them.  visited is the
\* shared set as it stands when the call is made.
dfs_routes(ctx, current, path, lat, bw, util, visited) ==
    IF Len(path) > max_hops + 1 THEN <<>>
    ELSE IF current = ctx.target_id /\ Len(path) > 1
         THEN << Route(ctx.source_id, ctx.target_id, path, lat, bw, util,
                       assess_route_quality(lat, bw, util)) >>
    ELSE IF current \in visited THEN <<>>
    ELSE IF current \in DOMAIN ctx.topo
         THEN dfs_neighbors(ctx, current, path, lat, bw, util,
                           visited \cup {current}, 1)
         ELSE <<>>

\* the loop over self.topology_cache[current], from its i-th key on
dfs_neighbors(ctx, current, path, lat, bw, util, visited, i) ==
    IF i > Len(ctx.topo[current]) THEN <<>>
    ELSE LET neighbor_id == ctx.topo[current][i].nbr
             m == get_link_metrics(current, neighbor_id, ctx.telemetry)
             found == IF neighbor_id \notin visited /\ m.valid
                      THEN dfs_routes(ctx, neighbor_id, Append(path, neighbor_id),
                                     lat + m.latency, Min(bw, m.bandwidth),
                                     Max(util, m.utilization), visited)
                      ELSE <<>>
         IN  found \o dfs_neighbors(ctx, current, path, lat, bw, util, visited, i + 1)

\* list.sort(key=score, reverse=True) is stable: routes of equal score keep
\* their order of discovery.
InsertRouteLast(sorted, r) == Append(sorted, r)

\* InsertRoute with > for >= : a route goes before the routes of its score
InsertRouteBeforeTies(sorted, r) ==
    LET k == Cardinality({i \in 1..Len(sorted) : route_score(sorted[i]) > route_score(r)})
    IN  SubSeq(sorted, 1, k) \o <<r>> \o SubSeq(sorted, k + 1, Len(sorted))

InsertRoute(sorted, r) ==
    LET k == Cardinality({i \in 1..Len(sorted) : route_score(sorted[i]) >= route_score(r)})
    IN  SubSeq(sorted, 1, k) \o <<r>> \o SubSeq(sorted, k + 1, Len(sorted))

RECURSIVE SortRoutesFrom(_, _, _)
SortRoutesFrom(rs, i, sorted) ==
    IF i > Len(rs) THEN sorted
    ELSE SortRoutesFrom(rs, i + 1, InsertRoute(sorted, rs[i]))

SortRoutes(rs) == SortRoutesFrom(rs, 1, <<>>)

\* The search of find_all_routes on a cache miss (lines 113-165).
SearchRoutes(s, t, topo, T) ==
    SortRoutes(dfs_routes(SearchContext(s, t, topo, T), s, <<s>>, 0, Infinity, 0, {}))

CacheHit(cache, s, t) == <<s, t>> \in DOMAIN cache

DictPut(cache, key, val) ==
    [k \in DOMAIN cache \cup {key} |-> IF k = key THEN val ELSE cache[k]]

\* find_all_routes(s, t, T) on a router whose cache and adjacency view are
\* cache and topo: what it returns and the cache it leaves.
FindAllRoutes(cache, topo, s, t, T) ==
    IF CacheHit(cache, s, t)
    THEN [routes |-> cache[<<s, t>>], cache |-> cache]
    ELSE LET rs == SearchRoutes(s, t, topo, T)
         IN  [routes |-> rs, cache |-> DictPut(cache, <<s, t>>, rs)]

-----------------------------------------------------------------------------
(* analyze_network_health *)

Frac(n, d) == [num |-> n, den |-> d]

\* the tests of IsCongested with >= for >
IsCongestedAtThreshold(l) ==
    \/ l.utilization >= utilization_pct_threshold
    \/ l.latency_ms >= latency_ms_threshold

IsCongested(l) ==
    \/ l.utilization > utilization_pct_threshold
    \/ l.latency_ms > latency_ms_threshold

\* BottleneckOf with the endpoints of the link exchanged
BottleneckOfSwapped(l) ==
    IF l.status = HEALTHY
    THEN IF IsCongested(l)
         THEN << [link_id |-> l.id, source_id |-> l.target_id,
                  target_id |-> l.source_id, latency_ms |-> l.latency_ms,
                  utilization_pct |-> l.utilization, issue |-> "congestion"] >>
         ELSE <<>>
    ELSE << [link_id |-> l.id, source_id |-> l.target_id,
             target_id |-> l.source_id, issue |-> "failure"] >>

\* the entry appended to analysis["bottlenecks"] for link l, if any
BottleneckOf(l) ==
    IF l.status = HEALTHY
    THEN IF IsCongested(l)
         THEN << [link_id |-> l.id, source_id |-> l.source_id,
                  target_id |-> l.target_id, latency_ms |-> l.latency_ms,
                  utilization_pct |-> l.utilization, issue |-> "congestion"] >>
         ELSE <<>>
    ELSE << [link_id |-> l.id, source_id |-> l.source_id,
             target_id |-> l.target_id, issue |-> "failure"] >>

RECURSIVE BottlenecksFrom(_, _)
BottlenecksFrom(links, i) ==
    IF i > Len(links) THEN <<>>
    ELSE BottleneckOf(links[i]) \o BottlenecksFrom(links, i + 1)

RECURSIVE SumOver(_, _, _)
SumOver(seq, i, field) ==
    IF i > Len(seq) THEN 0
    ELSE (IF seq[i].status = HEALTHY THEN seq[i][field] ELSE 0) + SumOver(seq, i + 1, field)

CountStatus(seq, S) == Cardinality({i \in 1..Len(seq) : seq[i].status \in S})

AnalyzeNetworkHealth(T) ==
    LET healthy == CountStatus(T.links, {HEALTHY})
        bn == BottlenecksFrom(T.links, 1)
    IN  [total_components    |-> Len(T.components),
         healthy_components  |-> CountStatus(T.components, {HEALTHY}),
         degraded_components |-> CountStatus(T.components, {DEGRADED}),
         failed_components   |-> CountStatus(T.components, {FAILED, OFFLINE}),
         total_links         |-> Len(T.links),
         healthy_links       |-> healthy,
         congested_links     |-> Cardinality({i \in 1..Len(bn) : bn[i].issue = "congestion"}),
         failed_links        |-> Len(T.links) - healthy,
         avg_latency         |-> IF healthy > 0
                                 THEN Frac(SumOver(T.links, 1, "latency_ms"), healthy)
                                 ELSE Frac(0, 1),
         avg_utilization     |-> IF healthy > 0
                                 THEN Frac(SumOver(T.links, 1, "utilization"), healthy)
                                 ELSE Frac(0, 1),
         bottlenecks         |-> bn,
         reroute_opportunities |-> <<>>]

-----------------------------------------------------------------------------
(* suggest_reroutes and its helpers *)

\* _is_route_better with >= for > : a route exactly 10% better counts
is_route_better_at_margin(new_route, old_route, bottleneck) ==
    IF old_route = None THEN TRUE
    ELSE IF bottleneck.issue = "failure" THEN TRUE
    ELSE 10 * route_score(new_route) >= 11 * route_score(old_route[1])

\* _is_route_better without the failure case: scores decide always
is_route_better_by_score(new_route, old_route, bottleneck) ==
    IF old_route = None THEN TRUE
    ELSE 10 * route_score(new_route) > 11 * route_score(old_route[1])

\* _is_route_better(new_route, old_route, bottleneck); old_route is Optional.
\* new_score > old_score * 1.1, both sides multiplied by 10
is_route_better(new_route, old_route, bottleneck) ==
    IF old_route = None THEN TRUE
    ELSE IF bottleneck.issue = "failure" THEN TRUE
    ELSE 10 * route_score(new_route) > 11 * route_score(old_route[1])

\* _calculate_improvement: the dict it builds, a key only where the code
\* assigns it
calculate_improvement(old_route, new_route, bottleneck) ==
    IF old_route = None
    THEN [k \in {"latency_improvement_pct", "bandwidth_improvement_pct"} |-> Frac(100, 1)]
    ELSE LET old == old_route[1]
             keys == {"utilization_improvement_pct"}
                     \cup (IF old.total_latency > 0 THEN {"latency_improvement_pct"} ELSE {})
                     \cup (IF old.min_bandwidth > 0 THEN {"bandwidth_improvement_pct"} ELSE {})
         IN  [k \in keys |->
                IF k = "latency_improvement_pct"
                THEN Frac((old.total_latency - new_route.total_latency) * 100, old.total_latency)
                ELSE IF k = "bandwidth_improvement_pct"
                THEN Frac((new_route.min_bandwidth - old.min_bandwidth) * 100, old.min_bandwidth)
                ELSE Frac(old.max_utilization - new_route.max_utilization, 1)]

\* f"Avoid {issue} on {link_id}"
Reason(issue, link_id) == [avoid |-> issue, on |-> link_id]

RerouteAction(s, t, old_route, new_route, reason, improvement) ==
    [source_id |-> s, target_id |-> t, old_route |-> old_route,
     new_route |-> new_route, reason |-> reason,
     expected_improvement |-> improvement]

\* self.active_routes.get((source_id, target_id))
ActiveGet(active, s, t) ==
    IF <<s, t>> \in DOMAIN active THEN Some(active[<<s, t>>]) ELSE None

\* the loop body with the test "current_route is None or" dropped
SuggestForReplacementOnly(acc, b, topo, active, T) ==
    LET f == FindAllRoutes(acc.cache, topo, b.source_id, b.target_id, T)
        current_route == ActiveGet(active, b.source_id, b.target_id)
    IN  IF f.routes # <<>>
           /\ current_route # None
           /\ is_route_better(f.routes[1], current_route, b)
        THEN [cache |-> f.cache,
              suggestions |-> Append(acc.suggestions,
                  RerouteAction(b.source_id, b.target_id, current_route, f.routes[1],
                                Reason(b.issue, b.link_id),
                                calculate_improvement(current_route, f.routes[1], b)))]
        ELSE [cache |-> f.cache, suggestions |-> acc.suggestions]

\* The body of the loop over the bottlenecks for one bottleneck b: the
\* route cache and the suggestion list after it.
SuggestFor(acc, b, topo, active, T) ==
    LET f == FindAllRoutes(acc.cache, topo, b.source_id, b.target_id, T)
        current_route == ActiveGet(active, b.source_id, b.target_id)
    IN  IF f.routes # <<>>
           /\ (current_route = None \/ is_route_better(f.routes[1], current_route, b))
        THEN [cache |-> f.cache,
              suggestions |-> Append(acc.suggestions,
                  RerouteAction(b.source_id, b.target_id, current_route, f.routes[1],
                                Reason(b.issue, b.link_id),
                                calculate_improvement(current_route, f.routes[1], b)))]
        ELSE [cache |-> f.cache, suggestions |-> acc.suggestions]

RECURSIVE SuggestFrom(_, _, _, _, _, _)

\* the loop over the bottlenecks, left at the first bottleneck for which
\* find_all_routes finds nothing
SuggestFromUntilDeadEnd(acc, bn, i, topo, active, T) ==
    IF i > Len(bn) THEN acc
    ELSE LET a == SuggestFor(acc, bn[i], topo, active, T)
         IN  IF a.cache[<<bn[i].source_id, bn[i].target_id>>] = <<>> THEN a
             ELSE SuggestFrom(a, bn, i + 1, topo, active, T)

SuggestFrom(acc, bn, i, topo, active, T) ==
    IF i > Len(bn) THEN acc
    ELSE SuggestFrom(SuggestFor(acc, bn[i], topo, active, T), bn, i + 1, topo, active, T)

\* suggest_reroutes after its update_topology: topo is the rebuilt view
SuggestReroutes(cache, topo, active, T) ==
    SuggestFrom([cache |-> cache, suggestions |-> <<>>],
                AnalyzeNetworkHealth(T).bottlenecks, 1, topo, active, T)

-----------------------------------------------------------------------------
(* get_reroute_statistics *)

RECURSIVE GCD(_, _)
GCD(a, b) == IF b = 0 THEN a ELSE GCD(b, a % b)

Abs(x) == IF x < 0 THEN -x ELSE x

Reduce(f) ==
    LET g == GCD(Abs(f.num), f.den)
    IN  IF g = 0 THEN f ELSE Frac(f.num \div g, f.den \div g)

FracAdd(a, b) == Reduce(Frac(a.num * b.den + b.num * a.den, a.den * b.den))

\* the values history[i].expected_improvement[key] of the entries that have
\* the key: their sum and their number
RECURSIVE ImprovementsFrom(_, _, _)
ImprovementsFrom(history, i, key) ==
    IF i > Len(history) THEN [sum |-> Frac(0, 1), n |-> 0]
    ELSE LET rest == ImprovementsFrom(history, i + 1, key)
             e == history[i].expected_improvement
         IN  IF key \in DOMAIN e
             THEN [sum |-> FracAdd(Reduce(e[key]), rest.sum), n |-> rest.n + 1]
             ELSE rest

\* sum(xs) / len(xs) when xs is not empty, the initial 0.0 otherwise
Average(history, key) ==
    LET im == ImprovementsFrom(history, 1, key)
    IN  IF im.n > 0 THEN Reduce(Frac(im.sum.num, im.sum.den * im.n)) ELSE Frac(0, 1)

\* the reason table with every reason counted once
ReasonCountsOnce(history) ==
    [r \in {history[i].reason : i \in 1..Len(history)} |-> 1]

ReasonCounts(history) ==
    [r \in {history[i].reason : i \in 1..Len(history)} |->
        Cardinality({i \in 1..Len(history) : history[i].reason = r})]

recent_count == 5

RecentActions(history) ==
    LET n == Len(history)
        from == IF n > recent_count THEN n - recent_count + 1 ELSE 1
    IN  [j \in 1..(n - from + 1) |->
            [route |-> <<history[from + j - 1].source_id, history[from + j - 1].target_id>>,
             reason |-> history[from + j - 1].reason,
             improvement |-> history[from + j - 1].expected_improvement]]

GetRerouteStatistics(history) ==
    IF history = <<>> THEN [total_reroutes |-> 0]
    ELSE [total_reroutes |-> Len(history),
          avg_latency_improvement |-> Average(history, "latency_improvement_pct"),
          avg_bandwidth_improvement |-> Average(history, "bandwidth_improvement_pct"),
          success_rate |-> 100,
          most_common_reasons |-> ReasonCounts(history),
          recent_actions |-> RecentActions(history)]

-----------------------------------------------------------------------------
(* The router object and its methods.  A method takes the object's fields   *)
(* and its arguments, and gives the fields after the call, the value        *)
(* returned and the exception raised.                                       *)

Router(topo, cache, active, history) ==
    [topology_cache |-> topo, route_cache |-> cache,
     active_routes |-> active, reroute_history |-> history]

Outcome(self, ret, exc) == [self |-> self, ret |-> ret, raised |-> exc]

\* IntelligentRouter()
NewRouter == Router(<<>>, <<>>, <<>>, <<>>)

update_topology(self, telemetry) ==
    LET u == UpdateTopology(telemetry)
    IN  Outcome([self EXCEPT !.topology_cache = u.topo], None, u.raised)

find_all_routes(self, source_id, target_id, telemetry) ==
    LET f == FindAllRoutes(self.route_cache, self.topology_cache,
                           source_id, target_id, telemetry)
    IN  Outcome([self EXCEPT !.route_cache = f.cache], f.routes, "none")

analyze_network_health(self, telemetry) ==
    Outcome(self, AnalyzeNetworkHealth(telemetry), "none")

\* suggest_reroutes that also commits its first suggestion
suggest_reroutes_committing(self, telemetry) ==
    LET u == update_topology(self, telemetry)
        g == SuggestReroutes(u.self.route_cache, u.self.topology_cache,
                             u.self.active_routes, telemetry)
    IN  IF u.raised # "none" THEN u
        ELSE Outcome([u.self EXCEPT
                        !.route_cache = g.cache,
                        !.active_routes =
                            IF g.suggestions = <<>> THEN @
                            ELSE DictPut(@, <<g.suggestions[1].source_id,
                                              g.suggestions[1].target_id>>,
                                         g.suggestions[1].new_route)],
                     g.suggestions, "none")

suggest_reroutes(self, telemetry) ==
    LET u == update_topology(self, telemetry)
        g == SuggestReroutes(u.self.route_cache, u.self.topology_cache,
                             u.self.active_routes, telemetry)
    IN  IF u.raised # "none" THEN u
        ELSE Outcome([u.self EXCEPT !.route_cache = g.cache], g.suggestions, "none")

\* execute_reroute with setdefault for the store: the first route stays
execute_reroute_keeping(self, action) ==
    Outcome([self EXCEPT
                !.active_routes =
                    IF <<action.source_id, action.target_id>> \in DOMAIN @ THEN @
                    ELSE DictPut(@, <<action.source_id, action.target_id>>, action.new_route),
                !.reroute_history = Append(@, action)],
            TRUE, "none")

\* execute_reroute with insert(0, action) for append
execute_reroute_prepending(self, action) ==
    Outcome([self EXCEPT
                !.active_routes = DictPut(@, <<action.source_id, action.target_id>>,
                                          action.new_route),
                !.reroute_history = <<action>> \o @],
            TRUE, "none")

\* execute_reroute without the store into active_routes: the decision is
\* half-applied
execute_reroute_ledger_only(self, action) ==
    Outcome([self EXCEPT !.reroute_history = Append(@, action)], TRUE, "none")

\* The try block cannot raise: a dict store under a tuple key and a list
\* append.
execute_reroute(self, action) ==
    Outcome([self EXCEPT
                !.active_routes = DictPut(@, <<action.source_id, action.target_id>>,
                                          action.new_route),
                !.reroute_history = Append(@, action)],
            TRUE, "none")

get_reroute_statistics(self) ==
    Outcome(self, GetRerouteStatistics(self.reroute_history), "none")

-----------------------------------------------------------------------------
(* The telemetry frames and decisions the callers present *)

MaxHistory == 2

Components == << Component("A", HEALTHY), Component("B", HEALTHY), Component("C", HEALTHY) >>

Profile(status, lat, bw, util, err) ==
    [status |-> status, latency_ms |-> lat, bandwidth_gbps |-> bw,
     utilization |-> util, error_rate |-> err]

Ok        == Profile(HEALTHY, 1, 100, 25, 0)
Congested == Profile(HEALTHY, 1, 100, 90, 0)
Down      == Profile(FAILED, 0, 0, 0, 0)

LinkSlots ==
    << [id |-> "ab", source_id |-> "A", target_id |-> "B", profiles |-> {Congested, Down}],
       [id |-> "ac", source_id |-> "A", target_id |-> "C", profiles |-> {Ok, Down}],
       [id |-> "cb", source_id |-> "C", target_id |-> "B", profiles |-> {Ok}] >>

SlotLink(slot, p) ==
    Link(slot.id, slot.source_id, slot.target_id, p.status, p.latency_ms,
         p.bandwidth_gbps, p.utilization, p.error_rate)

Frames ==
    { TelemetryFrame(Components, [i \in 1..Len(LinkSlots) |-> SlotLink(LinkSlots[i], ps[i])]) :
        ps \in { f \in [1..Len(LinkSlots) -> UNION {LinkSlots[i].profiles : i \in 1..Len(LinkSlots)}] :
                    \A i \in 1..Len(LinkSlots) : f[i] \in LinkSlots[i].profiles } }

\* the pairs find_all_routes is called with from outside suggest_reroutes
FindPairs == { <<"A", "B">> }

\* RerouteAction objects the caller builds itself: the pair (A, B) pinned to
\* its direct link with the metrics of a busy hour, and a route through a
\* node Z that no frame has.
PinDirect ==
    RerouteAction("A", "B", None,
                  Route("A", "B", <<"A", "B">>, 3, 100, 55, assess_route_quality(3, 100, 55)),
                  Reason("manual", "none"), <<>>)

ViaUnknown ==
    RerouteAction("A", "B", None,
                  Route("A", "B", <<"A", "Z", "B">>, 8, 50, 60, assess_route_quality(8, 50, 60)),
                  Reason("manual", "none"), <<>>)

CallerActions == {PinDirect, ViaUnknown}

\* the threads that share one router in SpecThreads
Callers == {"t1", "t2"}

Idle == [pc |-> "idle"]

-----------------------------------------------------------------------------
(* The state machine: one action per method call *)

self == Router(topology_cache, route_cache, active_routes, reroute_history)

Init ==
    /\ topology_cache = NewRouter.topology_cache
    /\ route_cache = NewRouter.route_cache
    /\ active_routes = NewRouter.active_routes
    /\ reroute_history = NewRouter.reroute_history
    /\ call = [op |-> "init"]
    /\ routes = <<>>
    /\ analysis = None
    /\ suggestions = <<>>
    /\ success = None
    /\ stats = None
    /\ raised = "none"
    /\ callers = [t \in Callers |-> Idle]

\* the object's fields after a call
Becomes(r) ==
    /\ topology_cache' = r.self.topology_cache
    /\ route_cache' = r.self.route_cache
    /\ active_routes' = r.self.active_routes
    /\ reroute_history' = r.self.reroute_history
    /\ raised' = r.raised
    /\ UNCHANGED callers

CallUpdateTopology ==
    \E T \in Frames :
        /\ Becomes(update_topology(self, T))
        /\ call' = [op |-> "update_topology", telemetry |-> T]
        /\ routes' = <<>> /\ analysis' = None /\ success' = None /\ stats' = None
        /\ suggestions' = <<>>

\* The caller searches the frame it built the adjacency view from, or any
\* frame when it has built none yet.
CallFindAllRoutes ==
    \E T \in Frames, p \in FindPairs :
        LET r == find_all_routes(self, p[1], p[2], T)
        IN  /\ topology_cache = NewRouter.topology_cache
               \/ topology_cache = UpdateTopology(T).topo
            /\ Becomes(r)
            /\ call' = [op |-> "find_all_routes", source_id |-> p[1],
                        target_id |-> p[2], telemetry |-> T]
            /\ routes' = r.ret
            /\ analysis' = None /\ success' = None /\ stats' = None
            /\ suggestions' = <<>>

CallAnalyzeNetworkHealth ==
    \E T \in Frames :
        LET r == analyze_network_health(self, T)
        IN  /\ Becomes(r)
            /\ call' = [op |-> "analyze_network_health", telemetry |-> T]
            /\ analysis' = Some(r.ret)
            /\ routes' = <<>> /\ success' = None /\ stats' = None
            /\ UNCHANGED suggestions

CallSuggestReroutes ==
    \E T \in Frames :
        LET r == suggest_reroutes(self, T)
        IN  /\ Becomes(r)
            /\ call' = [op |-> "suggest_reroutes", telemetry |-> T]
            /\ suggestions' = IF r.raised = "none" THEN r.ret ELSE <<>>
            /\ routes' = <<>> /\ analysis' = None /\ success' = None /\ stats' = None

\* The caller commits a suggestion of the last suggest_reroutes, or an
\* action it built itself.  The ledger is capped at MaxHistory entries.
CallExecuteReroute ==
    /\ Len(reroute_history) < MaxHistory
    /\ \E action \in {suggestions[i] : i \in 1..Len(suggestions)} \cup CallerActions :
        LET r == execute_reroute(self, action)
        IN  /\ Becomes(r)
            /\ call' = [op |-> "execute_reroute", action |-> action]
            /\ success' = Some(r.ret)
            /\ routes' = <<>> /\ analysis' = None /\ stats' = None
            /\ UNCHANGED suggestions

CallGetRerouteStatistics ==
    LET r == get_reroute_statistics(self)
    IN  /\ Becomes(r)
        /\ call' = [op |-> "get_reroute_statistics"]
        /\ stats' = Some(r.ret)
        /\ routes' = <<>> /\ analysis' = None /\ success' = None
        /\ UNCHANGED suggestions

Next ==
    \/ CallUpdateTopology
    \/ CallFindAllRoutes
    \/ CallAnalyzeNetworkHealth
    \/ CallSuggestReroutes
    \/ CallExecuteReroute
    \/ CallGetRerouteStatistics

Spec == Init /\ [][Next]_vars

-----------------------------------------------------------------------------
(* A router's first calls: one snapshot given to a new IntelligentRouter.   *)
(* The snapshots are richer than the frames of Spec: a ring of six nodes    *)
(* with a parallel link and a self-loop, two links around the scan's        *)
(* thresholds, and the diamond of the acceptance scenarios.                 *)

HealthyNodes(ids) == [i \in 1..Len(ids) |-> Component(ids[i], HEALTHY)]

LinkOf(id, s, t, p) ==
    Link(id, s, t, p.status, p.latency_ms, p.bandwidth_gbps, p.utilization, p.error_rate)

\* The ring A-B-C-D-E-F-A.  A and B are joined by two links, ab listed
\* before ab2; C has a link to itself; fa is declared from F to A.  The
\* long way round from A to B has max_hops + 1 hops.
RingFrames ==
    { TelemetryFrame(HealthyNodes(<<"A", "B", "C", "D", "E", "F">>),
        << LinkOf("ab",  "A", "B", ab),
           LinkOf("ab2", "A", "B", ab2),
           LinkOf("bc",  "B", "C", Profile(HEALTHY, 2, 80, 30, 0)),
           LinkOf("cc",  "C", "C", Profile(HEALTHY, 1, 100, 5, 0)),
           LinkOf("cd",  "C", "D", cd),
           LinkOf("de",  "D", "E", Profile(HEALTHY, 1, 90, 10, 0)),
           LinkOf("ef",  "E", "F", Profile(HEALTHY, 2, 70, 15, 0)),
           LinkOf("fa",  "F", "A", fa) >>) :
        ab  \in {Profile(HEALTHY, 1, 100, 25, 0), Down},
        ab2 \in {Profile(HEALTHY, 3, 40, 50, 0), Down},
        cd  \in {Profile(HEALTHY, 4, 60, 20, 0), Down},
        fa  \in {Profile(HEALTHY, 1, 100, 5, 0), Profile(HEALTHY, 6, 50, 80, 0)} }

\* Two links l1 (A-B) and l2 (B-C) whose metrics sit at, or one above, the
\* thresholds of the scan, or whose status is not HEALTHY.
AtThreshold ==
    Profile(HEALTHY, latency_ms_threshold, 100, utilization_pct_threshold,
            error_rate_pct_threshold)

ScanProfiles ==
    { Profile(HEALTHY, lat, 100, util, err) :
        lat  \in {latency_ms_threshold, latency_ms_threshold + 1},
        util \in {utilization_pct_threshold, utilization_pct_threshold + 1},
        err  \in {error_rate_pct_threshold, error_rate_pct_threshold + 1} }
    \cup { Profile(s, 1, 100, 25, 0) : s \in {DEGRADED, FAILED, OFFLINE} }

ScanFrames ==
    { TelemetryFrame(HealthyNodes(<<"A", "B", "C">>),
        << LinkOf("l1", "A", "B", p1), LinkOf("l2", "B", "C", p2) >>) :
        p1 \in ScanProfiles, p2 \in {AtThreshold, Profile(OFFLINE, 1, 100, 25, 0)} }

\* Scenario A: the diamond A-B-D / A-C-D with link A-B failed.
ScenarioA ==
    TelemetryFrame(HealthyNodes(<<"A", "B", "C", "D">>),
        << LinkOf("ab", "A", "B", Down), LinkOf("bd", "B", "D", Ok),
           LinkOf("ac", "A", "C", Ok),   LinkOf("cd", "C", "D", Ok) >>)

\* The diamond with a fifth node E that only the link D-E reaches.  A-B and
\* D-E have failed; D-E is listed first in one frame and last in the other.
PendantFirst ==
    TelemetryFrame(HealthyNodes(<<"A", "B", "C", "D", "E">>),
        << LinkOf("de", "D", "E", Down) >> \o ScenarioA.links)

PendantLast ==
    TelemetryFrame(HealthyNodes(<<"A", "B", "C", "D", "E">>),
        ScenarioA.links \o << LinkOf("de", "D", "E", Down) >>)

\* Scenario C: one link is the only path between A and B, and it has failed.
SolePathFailed ==
    TelemetryFrame(HealthyNodes(<<"A", "B">>), << LinkOf("ab", "A", "B", Down) >>)

NoLinks == TelemetryFrame(HealthyNodes(<<"A", "B">>), <<>>)

\* Snapshots with a link whose endpoint X is not a component: the target
\* of a healthy link listed first, the source of a healthy link listed
\* between two valid links, and the target of a failed link.
UnknownTarget ==
    TelemetryFrame(HealthyNodes(<<"A", "B", "C">>),
        << LinkOf("ax", "A", "X", Ok), LinkOf("ab", "A", "B", Ok),
           LinkOf("bc", "B", "C", Ok) >>)

UnknownSource ==
    TelemetryFrame(HealthyNodes(<<"A", "B", "C">>),
        << LinkOf("ab", "A", "B", Ok), LinkOf("xb", "X", "B", Ok),
           LinkOf("bc", "B", "C", Ok) >>)

UnknownOnFailedLink ==
    TelemetryFrame(HealthyNodes(<<"A", "B", "C">>),
        << LinkOf("ax", "A", "X", Down), LinkOf("ab", "A", "B", Ok),
           LinkOf("bc", "B", "C", Ok) >>)

MalformedFrames == {UnknownTarget, UnknownSource, UnknownOnFailedLink}

\* snapshot T with the component id reported in the given status
WithStatus(T, id, status) ==
    [T EXCEPT !.components =
        [i \in 1..Len(T.components) |->
            IF T.components[i].id = id THEN Component(id, status) ELSE T.components[i]]]

\* Snapshots with a component that is not healthy: the node C of the
\* diamond, which the only way round the failed link passes, and the
\* node E that no healthy link reaches.
SickFrames ==
    { WithStatus(ScenarioA, "C", s) : s \in {DEGRADED, FAILED, OFFLINE} }
        \cup { WithStatus(PendantLast, "E", OFFLINE) }

\* The diamond with its four links alike and the way through C listed
\* before the way through B, beside a failed direct link A-D.
TiedDiamond ==
    TelemetryFrame(HealthyNodes(<<"A", "B", "C", "D">>),
        << LinkOf("ad", "A", "D", Down),
           LinkOf("ac", "A", "C", Ok), LinkOf("cd", "C", "D", Ok),
           LinkOf("ab", "A", "B", Ok), LinkOf("bd", "B", "D", Ok) >>)

FirstFrames ==
    RingFrames \cup ScanFrames \cup MalformedFrames \cup SickFrames
        \cup {ScenarioA, PendantFirst, PendantLast, SolePathFailed, NoLinks, TiedDiamond}

SearchPairs == { <<"A", "B">>, <<"A", "C">>, <<"A", "D">>, <<"C", "C">>, <<"C", "A">> }

LastCall(op) == call.op = op

FirstUpdateTopology ==
    /\ LastCall("init")
    /\ \E T \in FirstFrames :
        /\ Becomes(update_topology(self, T))
        /\ call' = [op |-> "update_topology", telemetry |-> T]
        /\ UNCHANGED <<routes, analysis, suggestions, success, stats>>

\* a router that has built its adjacency view is given another snapshot
NextUpdateTopology ==
    /\ LastCall("update_topology")
    /\ raised = "none"
    /\ \E T \in FirstFrames :
        /\ Becomes(update_topology(self, T))
        /\ call' = [op |-> "update_topology", telemetry |-> T]
        /\ UNCHANGED <<routes, analysis, suggestions, success, stats>>

\* the first search of a router that has built its adjacency view
SearchAfterUpdate ==
    /\ LastCall("update_topology")
    /\ raised = "none"
    /\ \E T \in FirstFrames, p \in SearchPairs :
        LET r == find_all_routes(self, p[1], p[2], T)
        IN  /\ Becomes(r)
            /\ call' = [op |-> "find_all_routes", source_id |-> p[1],
                        target_id |-> p[2], telemetry |-> T]
            /\ routes' = r.ret
            /\ UNCHANGED <<analysis, suggestions, success, stats>>

\* a search on a router that was given no snapshot before
SearchOnNewRouter ==
    /\ LastCall("init")
    /\ \E T \in FirstFrames, p \in SearchPairs :
        LET r == find_all_routes(self, p[1], p[2], T)
        IN  /\ Becomes(r)
            /\ call' = [op |-> "find_all_routes", source_id |-> p[1],
                        target_id |-> p[2], telemetry |-> T]
            /\ routes' = r.ret
            /\ UNCHANGED <<analysis, suggestions, success, stats>>

FirstAnalyzeNetworkHealth ==
    /\ LastCall("init")
    /\ \E T \in FirstFrames :
        LET r == analyze_network_health(self, T)
        IN  /\ Becomes(r)
            /\ call' = [op |-> "analyze_network_health", telemetry |-> T]
            /\ analysis' = Some(r.ret)
            /\ UNCHANGED <<routes, suggestions, success, stats>>

FirstSuggestReroutes ==
    /\ LastCall("init")
    /\ \E T \in FirstFrames :
        LET r == suggest_reroutes(self, T)
        IN  /\ Becomes(r)
            /\ call' = [op |-> "suggest_reroutes", telemetry |-> T]
            /\ suggestions' = IF r.raised = "none" THEN r.ret ELSE <<>>
            /\ UNCHANGED <<routes, analysis, success, stats>>

NextFirst ==
    \/ FirstUpdateTopology
    \/ NextUpdateTopology
    \/ SearchAfterUpdate
    \/ SearchOnNewRouter
    \/ FirstAnalyzeNetworkHealth
    \/ FirstSuggestReroutes

SpecFirst == Init /\ [][NextFirst]_vars

-----------------------------------------------------------------------------
(* Two threads share one router.  Each runs one tick, suggest_reroutes and  *)
(* then execute_reroute for every suggestion, as the statistics test does.  *)
(* The class takes no lock, so the threads' statements interleave; a step   *)
(* here is one statement or one loop of the method: the clear of            *)
(* update_topology, its loop over the components, its loop over the links,  *)
(* the scan, one pass of the loop over the bottlenecks, one commit.         *)

At(t, pc) == callers[t].pc = pc

Goes(t, rec) == callers' = [callers EXCEPT ![t] = rec]

\* suggest_reroutes(T) is entered; update_topology: self.topology_cache.clear()
TickClear(t) ==
    /\ At(t, "idle")
    /\ \E T \in Frames :
          Goes(t, [pc |-> "components", telemetry |-> T])
    /\ topology_cache' = <<>>
    /\ UNCHANGED <<route_cache, active_routes, reroute_history>>

\* update_topology: for component in telemetry.components
TickComponents(t) ==
    /\ At(t, "components")
    /\ topology_cache' =
          [n \in DOMAIN topology_cache \cup DOMAIN InitComponents(callers[t].telemetry) |->
              IF n \in DOMAIN InitComponents(callers[t].telemetry) THEN <<>>
              ELSE topology_cache[n]]
    /\ Goes(t, [callers[t] EXCEPT !.pc = "links"])
    /\ UNCHANGED <<route_cache, active_routes, reroute_history>>

\* update_topology: for link in telemetry.links.  A KeyError ends the tick.
TickLinks(t) ==
    LET u == AddLinks(topology_cache, callers[t].telemetry.links, 1)
    IN  /\ At(t, "links")
        /\ topology_cache' = u.topo
        /\ Goes(t, IF u.raised = "none"
                   THEN [callers[t] EXCEPT !.pc = "analyze"]
                   ELSE [pc |-> "raised", exception |-> u.raised])
        /\ UNCHANGED <<route_cache, active_routes, reroute_history>>

\* analysis = self.analyze_network_health(telemetry)
TickAnalyze(t) ==
    /\ At(t, "analyze")
    /\ Goes(t, [pc |-> "search", telemetry |-> callers[t].telemetry,
                bottlenecks |-> AnalyzeNetworkHealth(callers[t].telemetry).bottlenecks,
                i |-> 1, suggestions |-> <<>>])
    /\ UNCHANGED <<topology_cache, route_cache, active_routes, reroute_history>>

\* one pass of the loop over the bottlenecks; after the last, return
TickSearch(t) ==
    LET c == callers[t]
        a == SuggestFor([cache |-> route_cache, suggestions |-> c.suggestions],
                        c.bottlenecks[c.i], topology_cache, active_routes, c.telemetry)
    IN  /\ At(t, "search")
        /\ IF c.i <= Len(c.bottlenecks)
           THEN /\ route_cache' = a.cache
                /\ Goes(t, [c EXCEPT !.i = c.i + 1, !.suggestions = a.suggestions])
           ELSE /\ UNCHANGED route_cache
                /\ Goes(t, [pc |-> "commit", suggestions |-> c.suggestions, j |-> 1])
        /\ UNCHANGED <<topology_cache, active_routes, reroute_history>>

\* router.execute_reroute(suggestion) for the caller's next suggestion
TickCommit(t) ==
    LET c == callers[t]
        r == execute_reroute(self, c.suggestions[c.j])
    IN  /\ At(t, "commit")
        /\ IF c.j <= Len(c.suggestions)
           THEN /\ active_routes' = r.self.active_routes
                /\ reroute_history' = r.self.reroute_history
                /\ Goes(t, [c EXCEPT !.j = c.j + 1])
           ELSE /\ UNCHANGED <<active_routes, reroute_history>>
                /\ Goes(t, [pc |-> "done"])
        /\ UNCHANGED <<topology_cache, route_cache>>

\* a step of a tick leaves what the sequential callers hold alone
Quiet == UNCHANGED <<call, routes, analysis, suggestions, success, stats, raised>>

NextThreads ==
    \/ \E t \in Callers : TickClear(t) /\ Quiet
    \/ \E t \in Callers : TickComponents(t) /\ Quiet
    \/ \E t \in Callers : TickLinks(t) /\ Quiet
    \/ \E t \in Callers : TickAnalyze(t) /\ Quiet
    \/ \E t \in Callers : TickSearch(t) /\ Quiet
    \/ \E t \in Callers : TickCommit(t) /\ Quiet

SpecThreads == Init /\ [][NextThreads]_vars

-----------------------------------------------------------------------------
(* _route_score as a function of one metric.  A base route is drawn, one of  *)
(* its metrics is varied over its whole range with the others fixed, and     *)
(* every route of that series is scored.                                     *)

MaxLatency == 30
MaxBandwidth == 200
MaxUtilization == 100

\* a Route object with the given metrics and hop count
ScoredRoute(lat, bw, util, hops) ==
    Route("A", "B", [i \in 1..(hops + 1) |-> i], lat, bw, util,
          assess_route_quality(lat, bw, util))

BaseRoutes ==
    { ScoredRoute(lat, bw, util, hops) :
        lat  \in {0, 1, 19, 20, 21, MaxLatency},
        bw   \in {0, 50, 99, 100, 101, MaxBandwidth},
        util \in {0, 50, 99, MaxUtilization},
        hops \in 1..max_hops }

\* the base route with one metric running upwards through its range
Series(b, metric) ==
    CASE metric = "total_latency" ->
            [i \in 1..(MaxLatency + 1) |->
                ScoredRoute(i - 1, b.min_bandwidth, b.max_utilization, b.hops)]
      [] metric = "min_bandwidth" ->
            [i \in 1..(MaxBandwidth + 1) |->
                ScoredRoute(b.total_latency, i - 1, b.max_utilization, b.hops)]
      [] metric = "max_utilization" ->
            [i \in 1..(MaxUtilization + 1) |->
                ScoredRoute(b.total_latency, b.min_bandwidth, i - 1, b.hops)]
      [] metric = "hops" ->
            [i \in 1..max_hops |->
                ScoredRoute(b.total_latency, b.min_bandwidth, b.max_utilization, i)]

Metrics == {"total_latency", "min_bandwidth", "max_utilization", "hops"}

\* self._route_score(r) for every route r of a series; the scores are kept
\* with the call
ScoreSeries ==
    /\ LastCall("init")
    /\ \E b \in BaseRoutes, metric \in Metrics :
          /\ routes' = Series(b, metric)
          /\ call' = [op |-> "_route_score", varied |-> metric,
                      scores |-> [i \in 1..Len(Series(b, metric)) |->
                                    route_score(Series(b, metric)[i])]]
    /\ UNCHANGED <<topology_cache, route_cache, active_routes, reroute_history,
                   analysis, suggestions, success, stats, raised, callers>>

NextScore == ScoreSeries

SpecScore == Init /\ [][NextScore]_vars

-----------------------------------------------------------------------------
(* One caller runs ticks one after the other, as test_performance_statistics *)
(* does: suggestions = router.suggest_reroutes(network), then                *)
(* router.execute_reroute(suggestion) for every suggestion in order, and     *)
(* the statistics between ticks.  The snapshots have two parallel links      *)
(* between A and B and a way round through C whose links may have latency 0. *)

MaxTicks == 3

Free  == Profile(HEALTHY, 0, 100, 25, 0)
Spare == Profile(HEALTHY, 3, 40, 50, 0)

TickFrames ==
    { TelemetryFrame(HealthyNodes(<<"A", "B", "C">>),
        << LinkOf("ab",  "A", "B", ab),
           LinkOf("ab2", "A", "B", ab2),
           LinkOf("ac",  "A", "C", ac),
           LinkOf("cb",  "C", "B", Free) >>) :
        ab  \in {Congested, Down},
        ab2 \in {Spare, Down},
        ac  \in {Free, Ok} }

\* the thread that runs the ticks
Ticker == "t1"

\* the ticker is between two ticks: it has none started, or has committed
\* every suggestion of its last one
BetweenTicks ==
    \/ At(Ticker, "idle")
    \/ At(Ticker, "commit") /\ callers[Ticker].j > Len(suggestions)

TicksDone == IF At(Ticker, "idle") THEN 0 ELSE callers[Ticker].tick

\* the snapshots of the ticks so far, in order
Seen == IF At(Ticker, "idle") THEN <<>> ELSE callers[Ticker].seen

\* the object's fields after a call of the ticker
Returns(r) ==
    /\ topology_cache' = r.self.topology_cache
    /\ route_cache' = r.self.route_cache
    /\ active_routes' = r.self.active_routes
    /\ reroute_history' = r.self.reroute_history
    /\ raised' = r.raised

\* suggestions = router.suggest_reroutes(network)
TickSuggest ==
    /\ BetweenTicks
    /\ TicksDone < MaxTicks
    /\ \E T \in TickFrames :
        LET r == suggest_reroutes(self, T)
        IN  /\ Returns(r)
            /\ call' = [op |-> "suggest_reroutes", telemetry |-> T]
            /\ suggestions' = IF r.raised = "none" THEN r.ret ELSE <<>>
            /\ Goes(Ticker, [pc |-> "commit", tick |-> TicksDone + 1,
                             seen |-> Append(Seen, T), j |-> 1])
            /\ routes' = <<>> /\ analysis' = None /\ success' = None /\ stats' = None

\* router.execute_reroute(suggestion) for the next suggestion of the loop
TickExecute ==
    /\ At(Ticker, "commit")
    /\ callers[Ticker].j <= Len(suggestions)
    /\ LET action == suggestions[callers[Ticker].j]
           r == execute_reroute(self, action)
       IN  /\ Returns(r)
           /\ call' = [op |-> "execute_reroute", action |-> action]
           /\ success' = Some(r.ret)
           /\ Goes(Ticker, [callers[Ticker] EXCEPT !.j = @ + 1])
           /\ routes' = <<>> /\ analysis' = None /\ stats' = None
           /\ UNCHANGED suggestions

\* stats = router.get_reroute_statistics()
TickStatistics ==
    /\ BetweenTicks
    /\ LET r == get_reroute_statistics(self)
       IN  /\ Returns(r)
           /\ call' = [op |-> "get_reroute_statistics"]
           /\ stats' = Some(r.ret)
           /\ routes' = <<>> /\ analysis' = None /\ success' = None
           /\ UNCHANGED <<suggestions, callers>>

NextTicks ==
    \/ TickSuggest
    \/ TickExecute
    \/ TickStatistics

SpecTicks == Init /\ [][NextTicks]_vars

-----------------------------------------------------------------------------
(* find_all_routes step by step.  The recursion of dfs_routes is a stack of  *)
(* calls; visited and routes are the two variables of the enclosing          *)
(* find_all_routes that every call shares.  A step is the entry of a call    *)
(* up to visited.add, one pass of the loop over the neighbours, or the end   *)
(* of the loop with visited.remove and the return.                           *)

Searcher == "t2"

\* the snapshots searched step by step
SearchFrames == RingFrames \cup {ScenarioA, TiedDiamond, NoLinks}

\* a call dfs_routes(current, target, path, total_latency, min_bandwidth,
\* max_util) that has not run its first statement yet
DfsCall(current, path, lat, bw, util) ==
    [current |-> current, path |-> path, lat |-> lat, bw |-> bw, util |-> util,
     at |-> "entry", i |-> 1]

Top(stack) == stack[Len(stack)]

Pop(stack) == SubSeq(stack, 1, Len(stack) - 1)

\* visited.remove(current) without the removal
KeepVisited(visited, current) == visited

\* visited.remove(current)
RemoveVisited(visited, current) == visited \ {current}

Searching == At(Searcher, "dfs")

\* find_all_routes(s, t, T) is called on the router that update_topology(T)
\* has prepared: a cache miss, routes = [], visited = set(), and the first
\* call of dfs_routes
SearchBegin ==
    /\ LastCall("update_topology")
    /\ raised = "none"
    /\ At(Searcher, "idle")
    /\ call.telemetry \in SearchFrames
    /\ \E p \in SearchPairs :
          /\ ~CacheHit(route_cache, p[1], p[2])
          /\ Goes(Searcher,
                  [pc |-> "dfs", source_id |-> p[1], target_id |-> p[2],
                   telemetry |-> call.telemetry, found |-> <<>>, visited |-> {},
                   stack |-> << DfsCall(p[1], <<p[1]>>, 0, Infinity, 0) >>])
    /\ call' = [op |-> "dfs_routes", telemetry |-> call.telemetry]
    /\ UNCHANGED <<topology_cache, route_cache, active_routes, reroute_history,
                   routes, analysis, suggestions, success, stats, raised>>

\* the statements of dfs_routes before its loop (lines 118-139)
DfsEntry ==
    LET c == callers[Searcher]
        f == Top(c.stack)
    IN  /\ Searching
        /\ c.stack # <<>>
        /\ f.at = "entry"
        /\ IF Len(f.path) > max_hops + 1
           THEN Goes(Searcher, [c EXCEPT !.stack = Pop(@)])
           ELSE IF f.current = c.target_id /\ Len(f.path) > 1
           THEN Goes(Searcher,
                     [c EXCEPT !.stack = Pop(@),
                               !.found = Append(@,
                                   Route(c.source_id, c.target_id, f.path, f.lat, f.bw,
                                         f.util, assess_route_quality(f.lat, f.bw, f.util)))])
           ELSE IF f.current \in c.visited
           THEN Goes(Searcher, [c EXCEPT !.stack = Pop(@)])
           ELSE Goes(Searcher,
                     [c EXCEPT !.visited = @ \cup {f.current},
                               !.stack[Len(c.stack)].at = "loop"])
        /\ UNCHANGED <<topology_cache, route_cache, active_routes, reroute_history,
                       call, routes, analysis, suggestions, success, stats, raised>>

\* one pass of the loop over self.topology_cache[current] (lines 142-157),
\* or, after the last neighbour, visited.remove(current) and the return
DfsLoop ==
    LET c == callers[Searcher]
        f == Top(c.stack)
        nbrs == IF f.current \in DOMAIN topology_cache
                THEN topology_cache[f.current] ELSE <<>>
    IN  /\ Searching
        /\ c.stack # <<>>
        /\ f.at = "loop"
        /\ IF f.i > Len(nbrs)
           THEN Goes(Searcher,
                     [c EXCEPT !.visited = RemoveVisited(@, f.current),
                               !.stack = Pop(@)])
           ELSE LET neighbor_id == nbrs[f.i].nbr
                    m == get_link_metrics(f.current, neighbor_id, c.telemetry)
                    next == [c.stack EXCEPT ![Len(c.stack)].i = f.i + 1]
                IN  IF neighbor_id \notin c.visited /\ m.valid
                    THEN Goes(Searcher,
                              [c EXCEPT !.stack =
                                  Append(next,
                                         DfsCall(neighbor_id, Append(f.path, neighbor_id),
                                                 f.lat + m.latency, Min(f.bw, m.bandwidth),
                                                 Max(f.util, m.utilization)))])
                    ELSE Goes(Searcher, [c EXCEPT !.stack = next])
        /\ UNCHANGED <<topology_cache, route_cache, active_routes, reroute_history,
                       call, routes, analysis, suggestions, success, stats, raised>>

\* the first call of dfs_routes has returned: sort, cache and return
SearchReturn ==
    LET c == callers[Searcher]
        sorted == SortRoutes(c.found)
    IN  /\ Searching
        /\ c.stack = <<>>
        /\ route_cache' = DictPut(route_cache, <<c.source_id, c.target_id>>, sorted)
        /\ routes' = sorted
        /\ call' = [op |-> "find_all_routes", source_id |-> c.source_id,
                    target_id |-> c.target_id, telemetry |-> c.telemetry]
        /\ Goes(Searcher, [pc |-> "returned", visited |-> c.visited])
        /\ UNCHANGED <<topology_cache, active_routes, reroute_history,
                       analysis, suggestions, success, stats, raised>>

NextSearch ==
    \/ FirstUpdateTopology
    \/ SearchBegin
    \/ DfsEntry
    \/ DfsLoop
    \/ SearchReturn

\* a call that has begun goes on: the caller's thread runs it to its end
SpecSearch ==
    Init /\ [][NextSearch]_vars /\ WF_vars(DfsEntry \/ DfsLoop \/ SearchReturn)

-----------------------------------------------------------------------------
(* The latency of a route as dfs_routes accumulates it, in the arithmetic    *)
(* of Python floats.  A float is an IEEE 754 binary64 number; a positive     *)
(* one is kept here as its significand, a sequence of bits without leading   *)
(* or trailing zeros, and the exponent e of its last bit: the value is       *)
(* m * 2^e.  Zero has no bits.  Sums are exact on the integer-valued         *)
(* metrics of the other specifications; they are rounded on latencies such   *)
(* as the 4.2 and 2.2 of the test network.                                   *)

\* the bits of a binary64 significand
Precision == 53

Zeros(n) == [i \in 1..n |-> 0]

RECURSIVE StripLeading(_)
StripLeading(b) == IF b # <<>> /\ b[1] = 0 THEN StripLeading(Tail(b)) ELSE b

RECURSIVE TrailingZeros(_)
TrailingZeros(b) ==
    IF b # <<>> /\ b[Len(b)] = 0 THEN 1 + TrailingZeros(SubSeq(b, 1, Len(b) - 1)) ELSE 0

Binary64Zero == [m |-> <<>>, e |-> 0]

\* the number m * 2^e in the form described above
Canonical(m, e) ==
    LET s == StripLeading(m)
        z == TrailingZeros(s)
    IN  IF s = <<>> THEN Binary64Zero
        ELSE [m |-> SubSeq(s, 1, Len(s) - z), e |-> e + z]

\* the carry out of the bits i, i + 1, ... of A + B (A and B of one length)
RECURSIVE CarryOut(_, _, _)
CarryOut(A, B, i) ==
    IF i > Len(A) THEN 0 ELSE (A[i] + B[i] + CarryOut(A, B, i + 1)) \div 2

\* the bits of A + B, one more than A has
AddBits(A, B) ==
    [i \in 1..(Len(A) + 1) |->
        IF i = 1 THEN CarryOut(A, B, 1)
        ELSE (A[i - 1] + B[i - 1] + CarryOut(A, B, i)) % 2]

\* S * 2^e rounded to a significand of Precision bits, ties to even
RoundToNearest(S, e) ==
    IF Len(S) <= Precision THEN Canonical(S, e)
    ELSE LET kept == SubSeq(S, 1, Precision)
             rest == SubSeq(S, Precision + 1, Len(S))
             above_half == \E j \in 2..Len(rest) : rest[j] = 1
             up == rest[1] = 1 /\ (above_half \/ kept[Precision] = 1)
         IN  Canonical(IF up THEN AddBits(kept, Zeros(Precision - 1) \o <<1>>) ELSE kept,
                       e + Len(rest))

\* a + b for floats a, b >= 0: the exact sum, rounded once
FloatAdd(a, b) ==
    IF a.m = <<>> THEN b
    ELSE IF b.m = <<>> THEN a
    ELSE LET e == Min(a.e, b.e)
             A == a.m \o Zeros(a.e - e)
             B == b.m \o Zeros(b.e - e)
             n == Max(Len(A), Len(B))
         IN  RoundToNearest(StripLeading(AddBits(Zeros(n - Len(A)) \o A,
                                                 Zeros(n - Len(B)) \o B)), e)

\* a < b for floats a, b >= 0
FloatLess(a, b) ==
    IF b.m = <<>> THEN FALSE
    ELSE IF a.m = <<>> THEN TRUE
    ELSE IF a.e + Len(a.m) # b.e + Len(b.m) THEN a.e + Len(a.m) < b.e + Len(b.m)
    ELSE LET n == Max(Len(a.m), Len(b.m))
             A == a.m \o Zeros(n - Len(a.m))
             B == b.m \o Zeros(n - Len(b.m))
         IN  \E i \in 1..n : A[i] < B[i] /\ \A j \in 1..(i - 1) : A[j] = B[j]

RECURSIVE BitsOf(_)
BitsOf(n) == IF n = 0 THEN <<>> ELSE BitsOf(n \div 2) \o <<n % 2>>

\* the float of a small natural number
FloatOf(n) == Canonical(BitsOf(n), 0)

RECURSIVE HexBits(_)
HexBits(digits) ==
    IF digits = <<>> THEN <<>>
    ELSE LET d == Head(digits)
         IN  <<d \div 8, (d \div 4) % 2, (d \div 2) % 2, d % 2>> \o HexBits(Tail(digits))

\* the float that float.hex() prints as 0x1.<digits>p<p>
Binary64(digits, p) == Canonical(<<1>> \o HexBits(digits), p - 4 * Len(digits))

\* Link latencies: those of the links cpu1_mem1 (2.0), switch_mem1 (4.0),
\* switch_mem2 (4.2) and cpu2_mem2 (2.2) of the test network, and 0.2, 0.4
\* and 1.4 ms.
LinkLatencies ==
    { FloatOf(2), FloatOf(4),
      Binary64(<<0, 12, 12, 12, 12, 12, 12, 12, 12, 12, 12, 12, 13>>, 2),
      Binary64(<<1, 9, 9, 9, 9, 9, 9, 9, 9, 9, 9, 9, 10>>, 1),
      Binary64(<<9, 9, 9, 9, 9, 9, 9, 9, 9, 9, 9, 9, 10>>, -3),
      Binary64(<<9, 9, 9, 9, 9, 9, 9, 9, 9, 9, 9, 9, 10>>, -2),
      Binary64(<<6, 6, 6, 6, 6, 6, 6, 6, 6, 6, 6, 6, 6>>, 0) }

\* new_latency = total_latency + link_latency (line 152) for the links of a
\* path from its i-th link on, total being the latency of the links before
RECURSIVE AccumulateLatency(_, _, _)
AccumulateLatency(latencies, i, total) ==
    IF i > Len(latencies) THEN total
    ELSE AccumulateLatency(latencies, i + 1, FloatAdd(total, latencies[i]))

\* the total_latency of the route along links of these latencies: the
\* search starts from 0.0 (line 162)
TotalLatency(latencies) == AccumulateLatency(latencies, 1, Binary64Zero)

\* _assess_route_quality for a latency given as a float
assess_route_quality_of_float(latency, bandwidth, utilization) ==
    IF FloatLess(latency, FloatOf(2)) /\ utilization < 50 THEN "excellent"
    ELSE IF FloatLess(latency, FloatOf(5)) /\ utilization < 70 THEN "good"
    ELSE IF FloatLess(latency, FloatOf(10)) /\ utilization < 85 THEN "fair"
    ELSE "poor"

Reversed(seq) == [i \in 1..Len(seq) |-> seq[Len(seq) + 1 - i]]

\* the links of a path: at most max_hops of them
LatencyLists == UNION { [1..n -> LinkLatencies] : n \in 1..max_hops }

\* dfs_routes walks a path whose links have the given latencies from its
\* first node to its last, and the same path from its last node to its
\* first; the links carry 100 Gbps at 25% utilization.  The call keeps the
\* total latency and the tier of the route found each way.
WalkBothWays ==
    /\ LastCall("init")
    /\ \E latencies \in LatencyLists :
          call' = [op |-> "walk", latencies |-> latencies,
                   total_latency |-> TotalLatency(latencies),
                   quality |-> assess_route_quality_of_float(
                                   TotalLatency(latencies), 100, 25),
                   reversed_total_latency |-> TotalLatency(Reversed(latencies)),
                   reversed_quality |-> assess_route_quality_of_float(
                                   TotalLatency(Reversed(latencies)), 100, 25)]
    /\ UNCHANGED <<topology_cache, route_cache, active_routes, reroute_history,
                   routes, analysis, suggestions, success, stats, raised, callers>>

NextLatency == WalkBothWays

SpecLatency == Init /\ [][NextLatency]_vars

-----------------------------------------------------------------------------
(* Claims *)

\* the routes a search of the current adjacency view gives for the last
\* find_all_routes call
FreshRoutes ==
    SearchRoutes(call.source_id, call.target_id, topology_cache, call.telemetry)

\* the adjacency view is the one update_topology builds from the frame of
\* the last call
TopologyIsOf(T) == topology_cache = UpdateTopology(T).topo

\* C1: once update_topology(T) has run, find_all_routes(s, t, T) returns
\* the routes of a search of T's topology, never a list cached against an
\* earlier snapshot or an earlier topology.
C1_NoStaleRouteList ==
    (LastCall("find_all_routes") /\ TopologyIsOf(call.telemetry)) => routes = FreshRoutes


Pair(x) == <<x.source_id, x.target_id>>

\* the bottlenecks of the frame of the last call, in scan order
Bottlenecks == AnalyzeNetworkHealth(call.telemetry).bottlenecks

BottleneckSet == {Bottlenecks[i] : i \in 1..Len(Bottlenecks)}

\* the suggestions of the last suggest_reroutes that bottleneck b produced
SuggestionsFor(b) ==
    {i \in 1..Len(suggestions) :
        suggestions[i].reason = Reason(b.issue, b.link_id) /\ Pair(suggestions[i]) = Pair(b)}

\* the routes find_all_routes gave suggest_reroutes for b's pair; the call
\* leaves them in the cache
Candidates(b) == route_cache[Pair(b)]

HasActive(b) == Pair(b) \in DOMAIN active_routes

HealthyLinkBetween(T, a, b) ==
    \E i \in 1..Len(T.links) : LinkJoins(T.links[i], a, b) /\ T.links[i].status = HEALTHY

\* C2: every hop of a suggested new_route is joined by a link that is
\* HEALTHY in the snapshot given to suggest_reroutes.
C2_SuggestedRouteUsesHealthyLinks ==
    LastCall("suggest_reroutes") =>
        \A i \in 1..Len(suggestions) :
            \A k \in 1..(Len(suggestions[i].new_route.path) - 1) :
                HealthyLinkBetween(call.telemetry, suggestions[i].new_route.path[k],
                                   suggestions[i].new_route.path[k + 1])

\* C3: suggest_reroutes never suggests, as new_route, the node sequence of
\* the route that active_routes holds for the pair.
C3_NeverSuggestsTheActiveRoute ==
    LastCall("suggest_reroutes") =>
        \A i \in 1..Len(suggestions) :
            Pair(suggestions[i]) \in DOMAIN active_routes =>
                suggestions[i].new_route.path # active_routes[Pair(suggestions[i])].path

C5_FailureAlwaysSuggests ==
    LastCall("suggest_reroutes") =>
        \A b \in BottleneckSet :
            (b.issue = "failure" /\ Candidates(b) # <<>>) => SuggestionsFor(b) # {}

\* a failure bottleneck suggested although the candidate is not 10% better
\* than the active route
C5_FailureSuggestedBelowMargin ==
    /\ LastCall("suggest_reroutes")
    /\ \E b \in BottleneckSet :
          /\ b.issue = "failure" /\ HasActive(b) /\ Candidates(b) # <<>>
          /\ 10 * route_score(Candidates(b)[1]) <= 11 * route_score(active_routes[Pair(b)])
          /\ SuggestionsFor(b) # {}

\* C6: a bottleneck of either kind whose pair has no active route and has a
\* candidate route always yields a suggestion, with old_route absent.
C6_FirstConnectionAlwaysSuggests ==
    LastCall("suggest_reroutes") =>
        \A b \in BottleneckSet :
            (~HasActive(b) /\ Candidates(b) # <<>>) =>
                /\ SuggestionsFor(b) # {}
                /\ \A i \in SuggestionsFor(b) : suggestions[i].old_route = None

\* a congestion and a failure bottleneck, both first connections, both
\* suggested in one call
C6_FirstConnectionsOfBothKinds ==
    /\ LastCall("suggest_reroutes")
    /\ \E b, c \in BottleneckSet :
          /\ b.issue = "congestion" /\ c.issue = "failure"
          /\ ~HasActive(b) /\ ~HasActive(c)
          /\ SuggestionsFor(b) # {} /\ SuggestionsFor(c) # {}

\* C7: execute_reroute(d) stores d.new_route under d's pair and appends d to
\* reroute_history, one entry per commit.
C7_CommitStoresAndAppends ==
    [][call'.op = "execute_reroute" =>
          /\ success' = Some(TRUE)
          /\ Pair(call'.action) \in DOMAIN active_routes'
          /\ active_routes'[Pair(call'.action)] = call'.action.new_route
          /\ reroute_history' = Append(reroute_history, call'.action)]_vars

\* two commits for one pair: two ledger entries in commit order, the table
\* holding the later route only
C7_TwoCommitsForOnePair ==
    /\ LastCall("execute_reroute")
    /\ Len(reroute_history) = 2
    /\ Pair(reroute_history[1]) = Pair(reroute_history[2])
    /\ reroute_history[1].new_route # reroute_history[2].new_route
    /\ reroute_history[2].old_route = Some(reroute_history[1].new_route)
    /\ active_routes[Pair(reroute_history[2])] = reroute_history[2].new_route

\* the route of an action names a node that the adjacency view does not have
ReferencesUnknownNode(action) ==
    \E k \in 1..Len(action.new_route.path) :
        action.new_route.path[k] \notin DOMAIN topology_cache

\* no route search of the router has produced the route of the action
NotFromSearch(action) ==
    \A key \in DOMAIN route_cache :
        \A i \in 1..Len(route_cache[key]) : route_cache[key][i] # action.new_route

\* C8: execute_reroute rejects an action whose route no route search
\* produced or whose route references a node absent from the last topology
\* update: it reports failure and leaves active_routes and reroute_history
\* unchanged.
C8_RejectsContractViolation ==
    [][(/\ call'.op = "execute_reroute"
        /\ NotFromSearch(call'.action) \/ ReferencesUnknownNode(call'.action)) =>
           /\ success' = Some(FALSE)
           /\ active_routes' = active_routes
           /\ reroute_history' = reroute_history]_vars

IsPrefix(a, b) == Len(a) <= Len(b) /\ SubSeq(b, 1, Len(a)) = a

\* C9: every operation leaves the earlier reroute_history as a prefix of the
\* later one.
C9_LedgerAppendOnly == [][IsPrefix(reroute_history, reroute_history')]_vars

\* a commit onto a ledger that already had an entry
C9_LedgerGrewTwice ==
    LastCall("execute_reroute") /\ Len(reroute_history) >= 2

\* C10: only execute_reroute changes active_routes and reroute_history, and
\* it changes the entry of its own pair only.
C10_OnlyCommitWrites ==
    [][/\ call'.op # "execute_reroute" =>
            active_routes' = active_routes /\ reroute_history' = reroute_history
       /\ call'.op = "execute_reroute" =>
            /\ DOMAIN active_routes' = DOMAIN active_routes \cup {Pair(call'.action)}
            /\ \A k \in DOMAIN active_routes :
                  k # Pair(call'.action) => active_routes'[k] = active_routes[k]]_vars

\* a commit for one pair while the table holds another pair's route, after
\* suggest_reroutes returned suggestions for both
C10_CommitBesideAnotherPair ==
    /\ LastCall("execute_reroute")
    /\ Cardinality(DOMAIN active_routes) = 2
    /\ Len(suggestions) = 2

-----------------------------------------------------------------------------
(* Claims about the route search, checked on a router's first calls *)

NoNodeTwice(path) ==
    \A i, j \in 1..Len(path) : i # j => path[i] # path[j]

\* C11: every route find_all_routes(s, t, T) returns starts at s, ends at
\* t, has at least two nodes, visits no node twice and has at most max_hops
\* hops (nodes - 1); find_all_routes(s, s, T) returns no route.
C11_RoutesWellFormed ==
    LastCall("find_all_routes") =>
        /\ \A i \in 1..Len(routes) :
              /\ routes[i].source_id = call.source_id
              /\ routes[i].target_id = call.target_id
              /\ Len(routes[i].path) >= 2
              /\ routes[i].path[1] = call.source_id
              /\ routes[i].path[Len(routes[i].path)] = call.target_id
              /\ NoNodeTwice(routes[i].path)
              /\ routes[i].hops = Len(routes[i].path) - 1
              /\ routes[i].hops <= max_hops
        /\ call.source_id = call.target_id => routes = <<>>

\* a search returns a route of exactly max_hops hops beside a shorter one
C11_RouteOfMaxHops ==
    /\ LastCall("find_all_routes")
    /\ \E i, j \in 1..Len(routes) :
          routes[i].hops = max_hops /\ routes[j].hops < max_hops

NodeIds(T) ==
    {T.components[i].id : i \in 1..Len(T.components)}
        \cup {T.links[i].source_id : i \in 1..Len(T.links)}
        \cup {T.links[i].target_id : i \in 1..Len(T.links)}

\* the simple paths of at most max_hops hops that extend prefix to t in the
\* graph of the HEALTHY links of T
RECURSIVE SimplePathsFrom(_, _, _)
SimplePathsFrom(T, prefix, t) ==
    LET last == prefix[Len(prefix)]
        seen == {prefix[i] : i \in 1..Len(prefix)}
    IN  IF Len(prefix) > 1 /\ last = t THEN {prefix}
        ELSE IF Len(prefix) - 1 >= max_hops THEN {}
        ELSE UNION { SimplePathsFrom(T, Append(prefix, n), t) :
                        n \in {m \in NodeIds(T) \ seen : HealthyLinkBetween(T, last, m)} }

SimplePaths(T, s, t) == SimplePathsFrom(T, <<s>>, t)

\* C12: after update_topology(T) and with no cache entry for (s, t),
\* find_all_routes(s, t, T) returns every simple path from s to t of at
\* most max_hops hops in the graph of the HEALTHY links of T, each exactly
\* once, parallel links of mixed health included.
C12_SearchIsComplete ==
    (LastCall("find_all_routes") /\ TopologyIsOf(call.telemetry)) =>
        /\ {routes[i].path : i \in 1..Len(routes)}
              = SimplePaths(call.telemetry, call.source_id, call.target_id)
        /\ \A i, j \in 1..Len(routes) : routes[i].path = routes[j].path => i = j

\* the ways to pick, for each hop of path, one HEALTHY link of T that joins
\* the hop's two nodes: the k-th element is the index of the link picked
\* for the k-th hop
HopLinks(T, path) ==
    { c \in [1..(Len(path) - 1) -> 1..Len(T.links)] :
        \A k \in 1..(Len(path) - 1) :
            /\ LinkJoins(T.links[c[k]], path[k], path[k + 1])
            /\ T.links[c[k]].status = HEALTHY }

RECURSIVE SumOfLinks(_, _, _, _)
SumOfLinks(T, c, k, field) ==
    IF k > Len(c) THEN 0 ELSE T.links[c[k]][field] + SumOfLinks(T, c, k + 1, field)

\* C13: the total_latency of every route find_all_routes returns is the
\* sum of the latencies of healthy links of the snapshot, one per hop, each
\* joining the two nodes of its hop.
C13_LatencyIsSumOfLinks ==
    LastCall("find_all_routes") =>
        \A i \in 1..Len(routes) :
            \E c \in HopLinks(call.telemetry, routes[i].path) :
                routes[i].total_latency = SumOfLinks(call.telemetry, c, 1, "latency_ms")

\* C14: the min_bandwidth of every route find_all_routes returns is the
\* least bandwidth, and its max_utilization the greatest utilization, of
\* the healthy links of the snapshot it traverses.
C14_BandwidthAndUtilizationOfLinks ==
    LastCall("find_all_routes") =>
        \A i \in 1..Len(routes) :
            \E c \in HopLinks(call.telemetry, routes[i].path) :
                /\ \E k \in DOMAIN c :
                      routes[i].min_bandwidth = call.telemetry.links[c[k]].bandwidth_gbps
                /\ \A k \in DOMAIN c :
                      routes[i].min_bandwidth <= call.telemetry.links[c[k]].bandwidth_gbps
                /\ \E k \in DOMAIN c :
                      routes[i].max_utilization = call.telemetry.links[c[k]].utilization
                /\ \A k \in DOMAIN c :
                      routes[i].max_utilization >= call.telemetry.links[c[k]].utilization

\* the routes of the last find_all_routes call in the order dfs_routes
\* appends them, before the sort
Discovered ==
    dfs_routes(SearchContext(call.source_id, call.target_id, topology_cache,
                             call.telemetry),
               call.source_id, <<call.source_id>>, 0, Infinity, 0, {})

\* C15: the list find_all_routes returns is sorted best-first: the score
\* of each route is at least the score of the route after it, so the first
\* route has the greatest score of the list.
C15_SortedBestFirst ==
    LastCall("find_all_routes") =>
        /\ \A i \in 1..(Len(routes) - 1) :
              route_score(routes[i]) >= route_score(routes[i + 1])
        /\ \A i \in 1..Len(routes) :
              route_score(routes[1]) >= route_score(routes[i])

\* the route found last is returned first
C15_SortReorders ==
    /\ LastCall("find_all_routes")
    /\ Len(routes) >= 2
    /\ routes[1] = Discovered[Len(Discovered)]
    /\ route_score(routes[1]) > route_score(routes[2])

-----------------------------------------------------------------------------
(* Claims about the bottleneck scan *)

\* the bottleneck list analyze_network_health returned last
Scanned == analysis[1].bottlenecks

ScannedLinks == call.telemetry.links

Flagged(l, issue) ==
    \E i \in 1..Len(Scanned) : Scanned[i].link_id = l.id /\ Scanned[i].issue = issue

\* C16: analyze_network_health lists as congestion every HEALTHY link whose
\* utilization exceeds 85, or whose latency exceeds 10 ms, or whose error
\* rate exceeds 5, and lists as failure every link that is not HEALTHY.
C16_ScanFlagsEveryBottleneck ==
    LastCall("analyze_network_health") =>
        \A k \in 1..Len(ScannedLinks) :
            LET l == ScannedLinks[k]
            IN  /\ (l.status = HEALTHY
                      /\ (\/ l.utilization > utilization_pct_threshold
                          \/ l.latency_ms > latency_ms_threshold
                          \/ l.error_rate > error_rate_pct_threshold))
                    => Flagged(l, "congestion")
                /\ l.status # HEALTHY => Flagged(l, "failure")

\* C17: a HEALTHY link whose utilization, latency and error rate are all at
\* or below their thresholds is not in the bottleneck list, and no link is
\* in the list twice.
C17_ScanFlagsNothingElse ==
    LastCall("analyze_network_health") =>
        /\ \A k \in 1..Len(ScannedLinks) :
              LET l == ScannedLinks[k]
              IN  (l.status = HEALTHY
                     /\ l.utilization <= utilization_pct_threshold
                     /\ l.latency_ms <= latency_ms_threshold
                     /\ l.error_rate <= error_rate_pct_threshold)
                  => \A i \in 1..Len(Scanned) : Scanned[i].link_id # l.id
        /\ \A i, j \in 1..Len(Scanned) :
              Scanned[i].link_id = Scanned[j].link_id => i = j

\* a scan of a link exactly at the three thresholds beside a failed link:
\* only the failed link is listed
C17_AtThresholdBesideFailure ==
    /\ LastCall("analyze_network_health")
    /\ \E k \in 1..Len(ScannedLinks) :
          /\ ScannedLinks[k].status = HEALTHY
          /\ ScannedLinks[k].utilization = utilization_pct_threshold
          /\ ScannedLinks[k].latency_ms = latency_ms_threshold
          /\ ScannedLinks[k].error_rate = error_rate_pct_threshold
    /\ Len(Scanned) = 1
    /\ Scanned[1].issue = "failure"

-----------------------------------------------------------------------------
(* Claims about the suggestions of a new router *)

\* C18 as stated: for Scenario A a new router's suggest_reroutes returns
\* exactly one suggestion, for the pair (A, D), with new route A, C, D and
\* a reason tagged failure.
C18_ScenarioASuggestsForAD ==
    (LastCall("suggest_reroutes") /\ call.telemetry = ScenarioA) =>
        /\ Len(suggestions) = 1
        /\ Pair(suggestions[1]) = <<"A", "D">>
        /\ suggestions[1].new_route.path = <<"A", "C", "D">>
        /\ suggestions[1].reason.avoid = "failure"

\* C18, amended: for Scenario A a new router's suggest_reroutes returns
\* exactly one suggestion; it is for the pair of the failed link, (A, B),
\* its new route is the path A, C, D, B around that link, and its reason is
\* tagged failure on that link.
C18_ScenarioASuggestsForFailedLink ==
    (LastCall("suggest_reroutes") /\ call.telemetry = ScenarioA) =>
        /\ raised = "none"
        /\ Len(suggestions) = 1
        /\ Pair(suggestions[1]) = <<"A", "B">>
        /\ suggestions[1].new_route.path = <<"A", "C", "D", "B">>
        /\ suggestions[1].old_route = None
        /\ suggestions[1].reason = Reason("failure", "ab")

\* suggest_reroutes has answered Scenario A
C18_ScenarioAAnswered ==
    /\ LastCall("suggest_reroutes")
    /\ call.telemetry = ScenarioA
    /\ suggestions # <<>>

\* link l has failed and no path of healthy links of T joins its endpoints
Cut(T, l) ==
    /\ l.status # HEALTHY
    /\ SimplePaths(T, l.source_id, l.target_id) = {}

\* C19: when a link has failed and it was the only path between its
\* endpoints, find_all_routes returns the empty list for the pair and
\* suggest_reroutes returns no suggestion for it, and neither raises; a
\* snapshot without links gives no suggestion either.
C19_UnreachablePairIsEmpty ==
    /\ LastCall("find_all_routes") =>
          /\ raised = "none"
          /\ \A k \in 1..Len(call.telemetry.links) :
                (/\ Cut(call.telemetry, call.telemetry.links[k])
                 /\ TopologyIsOf(call.telemetry)
                 /\ <<call.source_id, call.target_id>> = Pair(call.telemetry.links[k]))
                => routes = <<>>
    /\ LastCall("suggest_reroutes") =>
          /\ raised = "none"
          /\ call.telemetry.links = <<>> => suggestions = <<>>
          /\ \A k \in 1..Len(call.telemetry.links) :
                Cut(call.telemetry, call.telemetry.links[k])
                => /\ route_cache[Pair(call.telemetry.links[k])] = <<>>
                   /\ \A i \in 1..Len(suggestions) :
                         Pair(suggestions[i]) # Pair(call.telemetry.links[k])

\* bottleneck b passes the decision gate of suggest_reroutes
PassesGate(b) ==
    /\ Candidates(b) # <<>>
    /\ \/ ~HasActive(b)
       \/ is_route_better(Candidates(b)[1], Some(active_routes[Pair(b)]), b)

\* C20: in one suggest_reroutes call every bottleneck is evaluated and
\* every bottleneck that passes the decision gate yields its suggestion,
\* also when a bottleneck listed before or after it has no alternative
\* route.
C20_DeadEndsAreLocal ==
    (LastCall("suggest_reroutes") /\ raised = "none") =>
        \A b \in BottleneckSet :
            /\ Pair(b) \in DOMAIN route_cache
            /\ PassesGate(b) => SuggestionsFor(b) # {}

\* a bottleneck without alternative route is listed before one that gets
\* its suggestion
C20_SuggestionAfterDeadEnd ==
    /\ LastCall("suggest_reroutes")
    /\ \E i, j \in 1..Len(Bottlenecks) :
          /\ i < j
          /\ Candidates(Bottlenecks[i]) = <<>>
          /\ SuggestionsFor(Bottlenecks[j]) # {}

-----------------------------------------------------------------------------
(* Claims about the adjacency view *)

ComponentIds(T) == {T.components[i].id : i \in 1..Len(T.components)}

WellFormed(T, l) == l.source_id \in ComponentIds(T) /\ l.target_id \in ComponentIds(T)

\* the ids listed for neighbour b of a in the adjacency view, <<>> if b is
\* no neighbour of a
IdsOf(a, b) ==
    IF a \in DOMAIN topology_cache /\ HasKey(topology_cache[a], b)
    THEN (CHOOSE e \in {topology_cache[a][i] : i \in 1..Len(topology_cache[a])} : e.nbr = b).ids
    ELSE <<>>

Lists(a, b, id) == \E i \in 1..Len(IdsOf(a, b)) : IdsOf(a, b)[i] = id

\* C21: update_topology does not raise on a snapshot with a link whose
\* source_id or target_id is no component id; it skips that link, and the
\* adjacency view holds every healthy link between two components.
C21_MalformedLinkSkipped ==
    LastCall("update_topology") =>
        /\ raised = "none"
        /\ \A k \in 1..Len(call.telemetry.links) :
              LET l == call.telemetry.links[k]
              IN  (l.status = HEALTHY /\ WellFormed(call.telemetry, l))
                  => /\ Lists(l.source_id, l.target_id, l.id)
                     /\ Lists(l.target_id, l.source_id, l.id)

HealthyIdsBetween(T, a, b) ==
    {T.links[i].id : i \in {k \in 1..Len(T.links) :
                              LinkJoins(T.links[k], a, b) /\ T.links[k].status = HEALTHY}}

\* C22: after update_topology(T) the keys of topology_cache are exactly
\* the component ids of T, and for components a and b, b is a neighbour of
\* a exactly when T has a HEALTHY link between a and b, listed once and
\* with the ids of all those links; nothing of an earlier snapshot remains.
C22_ViewIsOfLastSnapshot ==
    LastCall("update_topology") =>
        /\ DOMAIN topology_cache = ComponentIds(call.telemetry)
        /\ \A a \in DOMAIN topology_cache :
              /\ \A i, j \in 1..Len(topology_cache[a]) :
                    topology_cache[a][i].nbr = topology_cache[a][j].nbr => i = j
              /\ \A b \in ComponentIds(call.telemetry) :
                    /\ HasKey(topology_cache[a], b)
                          <=> HealthyLinkBetween(call.telemetry, a, b)
                    /\ {IdsOf(a, b)[i] : i \in 1..Len(IdsOf(a, b))}
                          = HealthyIdsBetween(call.telemetry, a, b)

-----------------------------------------------------------------------------
(* Claims about the statistics *)

\* the record get_reroute_statistics returned last
Statistics == stats[1]

\* the last n ledger entries as recent_actions reports them
LastCommits(n) ==
    [j \in 1..n |->
        LET a == reroute_history[Len(reroute_history) - n + j]
        IN  [route |-> Pair(a), reason |-> a.reason, improvement |-> a.expected_improvement]]

\* C23: in every state, the empty ledger included, get_reroute_statistics
\* returns a record with the total count, the average latency and
\* bandwidth improvements, the reason histogram and the recent decisions:
\* the last commits, at most 5, in commit order.
C23_StatisticsRecordComplete ==
    LastCall("get_reroute_statistics") =>
        /\ {"total_reroutes", "avg_latency_improvement", "avg_bandwidth_improvement",
            "most_common_reasons", "recent_actions"} \subseteq DOMAIN Statistics
        /\ Statistics.total_reroutes = Len(reroute_history)
        /\ Statistics.recent_actions = LastCommits(Min(recent_count, Len(reroute_history)))

-----------------------------------------------------------------------------
(* Further claims about the route search *)

\* C24: on a newly constructed router, with no update_topology or
\* suggest_reroutes call before it, find_all_routes(s, t, T) returns a
\* non-empty list when T joins s and t by a path of at most max_hops
\* HEALTHY links.
C24_SearchReadsItsSnapshot ==
    (LastCall("find_all_routes") /\ topology_cache = NewRouter.topology_cache) =>
        (SimplePaths(call.telemetry, call.source_id, call.target_id) # {}
            => routes # <<>>)

-----------------------------------------------------------------------------
(* Claims about concurrent callers *)

\* caller t is between the first statement of its tick and its last commit
InTick(t) == callers[t].pc \in {"components", "links", "analyze", "search", "commit"}

\* caller t has cleared the adjacency view and not yet rebuilt it
Rebuilding(t) == callers[t].pc \in {"components", "links"}

\* C25: two ticks on one router never interleave: no caller is inside its
\* tick while another is inside its own, so no caller searches routes
\* while another has cleared the adjacency view and not yet rebuilt it.
C25_TicksDoNotInterleave ==
    \A t, u \in Callers :
        t # u => /\ ~(InTick(t) /\ InTick(u))
                 /\ ~(At(t, "search") /\ Rebuilding(u))

-----------------------------------------------------------------------------
(* Further claims about the suggestions *)

\* C26: the new route of a suggestion for a pair with an active route is
\* a candidate found for the pair whose node sequence differs from the
\* active route's, and no other such candidate has a strictly higher
\* score; without an active route it is a candidate of greatest score.
C26_BestRouteOtherThanActive ==
    LastCall("suggest_reroutes") =>
        \A b \in BottleneckSet : \A i \in SuggestionsFor(b) :
            LET new == suggestions[i].new_route
                others == {k \in 1..Len(Candidates(b)) :
                              HasActive(b) => Candidates(b)[k].path # active_routes[Pair(b)].path}
            IN  /\ \E k \in others : Candidates(b)[k] = new
                /\ \A k \in others : route_score(Candidates(b)[k]) <= route_score(new)

ImprovementKeys ==
    {"latency_improvement_pct", "bandwidth_improvement_pct", "utilization_improvement_pct"}

\* fraction f is the number n / d
IsRatio(f, n, d) == f.num * d = n * f.den

\* C27: the expected_improvement of a suggestion for a pair without active
\* route gives latency, bandwidth and utilization as 100 each; with an
\* active route it gives the three metrics relative to that route: the
\* latency saved and the bandwidth gained as percentages of the old
\* route's, and the utilization shed.
C27_ImprovementHasThreeMetrics ==
    LastCall("suggest_reroutes") =>
        \A i \in 1..Len(suggestions) :
            LET e == suggestions[i].expected_improvement
                new == suggestions[i].new_route
            IN  /\ DOMAIN e = ImprovementKeys
                /\ IF suggestions[i].old_route = None
                   THEN \A k \in ImprovementKeys : IsRatio(e[k], 100, 1)
                   ELSE LET old == suggestions[i].old_route[1]
                        IN  /\ IsRatio(e.latency_improvement_pct,
                                       (old.total_latency - new.total_latency) * 100,
                                       old.total_latency)
                            /\ IsRatio(e.bandwidth_improvement_pct,
                                       (new.min_bandwidth - old.min_bandwidth) * 100,
                                       old.min_bandwidth)
                            /\ IsRatio(e.utilization_improvement_pct,
                                       old.max_utilization - new.max_utilization, 1)

-----------------------------------------------------------------------------
(* Claims about _route_score and _assess_route_quality *)

\* C28: with the other metrics fixed, the score never rises as
\* total_latency, max_utilization or the hop count rises, and never falls
\* as min_bandwidth rises (latency 0..MaxLatency, utilization
\* 0..MaxUtilization, bandwidth 0..MaxBandwidth, hops 1..max_hops).
C28_ScoreMonotonic ==
    LastCall("_route_score") =>
        \A i \in 1..(Len(call.scores) - 1) :
            IF call.varied = "min_bandwidth"
            THEN call.scores[i] <= call.scores[i + 1]
            ELSE call.scores[i] >= call.scores[i + 1]

\* a series over the utilization whose score falls strictly at every step,
\* and a series over the latency whose score falls and then stays
C28_ScoreFallsWithLoad ==
    /\ LastCall("_route_score")
    /\ \/ /\ call.varied = "max_utilization"
          /\ \A i \in 1..(Len(call.scores) - 1) : call.scores[i] > call.scores[i + 1]
       \/ /\ call.varied = "total_latency"
          /\ call.scores[1] > call.scores[2]
          /\ call.scores[Len(call.scores) - 1] = call.scores[Len(call.scores)]

\* the tiers a route of the given latency and utilization may be given by
\* the table; the first row that matches wins
TierRows ==
    << [tier |-> "excellent", latency |-> 2,  utilization |-> 50],
       [tier |-> "good",      latency |-> 5,  utilization |-> 70],
       [tier |-> "fair",      latency |-> 10, utilization |-> 85] >>

RowMatches(row, r) ==
    r.total_latency < row.latency /\ r.max_utilization < row.utilization

TierOf(r) ==
    IF \E k \in 1..Len(TierRows) : RowMatches(TierRows[k], r)
    THEN TierRows[CHOOSE k \in 1..Len(TierRows) :
                    /\ RowMatches(TierRows[k], r)
                    /\ \A j \in 1..(k - 1) : ~RowMatches(TierRows[j], r)].tier
    ELSE "poor"

-----------------------------------------------------------------------------
(* Further claims about the statistics *)

RECURSIVE SumOfCounts(_, _)
SumOfCounts(table, keys) ==
    IF keys = {} THEN 0
    ELSE LET k == CHOOSE x \in keys : TRUE
         IN  table[k] + SumOfCounts(table, keys \ {k})

\* the ledger has one entry more after a step that is an execute_reroute
\* call returning True, and as many as before after any other step
LedgerCountsCommits ==
    Len(reroute_history') = Len(reroute_history)
        + (IF call'.op = "execute_reroute" /\ success' = Some(TRUE) THEN 1 ELSE 0)

\* C30: with a non-empty ledger, get_reroute_statistics reports as
\* total_reroutes the number of execute_reroute calls that returned True
\* (the ledger's length, which grows by one with each such call and with
\* no other), and the counts of its reason table sum to total_reroutes.
C30_TotalCountsCommits ==
    /\ []((LastCall("get_reroute_statistics") /\ reroute_history # <<>>) =>
            /\ Statistics.total_reroutes = Len(reroute_history)
            /\ SumOfCounts(Statistics.most_common_reasons,
                           DOMAIN Statistics.most_common_reasons)
                  = Statistics.total_reroutes)
    /\ [][LedgerCountsCommits]_vars

\* statistics after two commits that share one reason
C30_TwoCommitsOneReason ==
    /\ LastCall("get_reroute_statistics")
    /\ Statistics.total_reroutes = 2
    /\ \E r \in DOMAIN Statistics.most_common_reasons :
          Statistics.most_common_reasons[r] = 2

-----------------------------------------------------------------------------
(* Claims about ticks run one after the other *)

\* the sum of expected_improvement[key] over the ledger divided by the
\* number of ledger entries
MeanOverLedger(history, key) ==
    LET im == ImprovementsFrom(history, 1, key)
    IN  Reduce(Frac(im.sum.num, im.sum.den * Len(history)))

\* C31: with a non-empty ledger, the average latency improvement and the
\* average bandwidth improvement of get_reroute_statistics are each the sum
\* of that improvement over the ledger divided by the number of ledger
\* entries, also when a committed decision replaced a route of latency 0 or
\* bandwidth 0.
C31_AveragesOverAllEntries ==
    (LastCall("get_reroute_statistics") /\ reroute_history # <<>>) =>
        /\ Statistics.avg_latency_improvement
             = MeanOverLedger(reroute_history, "latency_improvement_pct")
        /\ Statistics.avg_bandwidth_improvement
             = MeanOverLedger(reroute_history, "bandwidth_improvement_pct")

\* the positions of the ledger entries for pair k
EntriesFor(k) == {i \in 1..Len(reroute_history) : Pair(reroute_history[i]) = k}

LastEntryFor(k) ==
    reroute_history[CHOOSE i \in EntriesFor(k) : \A j \in EntriesFor(k) : j <= i]

\* C32: in every state the active-route table and the ledger agree: the
\* keys of active_routes are the pairs that occur in reroute_history, and
\* the route stored for a pair is the new_route of the pair's last ledger
\* entry.
C32_TableAgreesWithLedger ==
    /\ DOMAIN active_routes = {Pair(reroute_history[i]) : i \in 1..Len(reroute_history)}
    /\ \A k \in DOMAIN active_routes : active_routes[k] = LastEntryFor(k).new_route

\* a suggest_reroutes call returns on a router that holds a pair committed
\* twice, the second time with another route
C32_AgreeAfterOverwrite ==
    /\ LastCall("suggest_reroutes")
    /\ \E k \in DOMAIN active_routes :
          /\ Cardinality(EntriesFor(k)) = 2
          /\ \E i \in EntriesFor(k) : reroute_history[i].new_route # active_routes[k]

\* the positions before i of the ledger entries for the pair of entry i
EarlierFor(i) == {j \in EntriesFor(Pair(reroute_history[i])) : j < i}

\* C33: when every suggestion is committed, the ledger is a chain per pair:
\* the old_route of an entry is absent if the entry is the first for its
\* pair, and otherwise it is the new_route of the previous entry for that
\* pair, also when one tick has several bottlenecks on one pair.
C33_LedgerChainsPerPair ==
    \A i \in 1..Len(reroute_history) :
        IF EarlierFor(i) = {}
        THEN reroute_history[i].old_route = None
        ELSE LET prev == CHOOSE j \in EarlierFor(i) : \A k \in EarlierFor(i) : k <= j
             IN  reroute_history[i].old_route = Some(reroute_history[prev].new_route)

\* the position in the scan of the bottleneck that suggestion i names
BottleneckAt(i) ==
    {k \in 1..Len(Bottlenecks) :
        /\ suggestions[i].reason = Reason(Bottlenecks[k].issue, Bottlenecks[k].link_id)
        /\ Pair(suggestions[i]) = Pair(Bottlenecks[k])}

\* C35: a suggest_reroutes call returns at most one suggestion per
\* bottleneck, in the order of the links of the snapshot; a suggestion's
\* pair is the (source_id, target_id) of its bottleneck link, its reason
\* names that link and its issue, and no two suggestions of the call are
\* for the same pair.
C35_OneSuggestionPerBottleneck ==
    (LastCall("suggest_reroutes") /\ raised = "none") =>
        /\ \A i \in 1..Len(suggestions) : Cardinality(BottleneckAt(i)) = 1
        /\ \A i, j \in 1..Len(suggestions) :
              i < j => \A k \in BottleneckAt(i), m \in BottleneckAt(j) : k < m
        /\ \A i, j \in 1..Len(suggestions) :
              i # j => Pair(suggestions[i]) # Pair(suggestions[j])

\* every tick so far was given the same snapshot
Steady == \A i \in 1..Len(Seen) : Seen[i] = Seen[1]

\* C34: no flapping under a steady snapshot: when the same snapshot is
\* presented tick after tick and every suggestion is committed,
\* suggest_reroutes returns no suggestion from the second tick on, so the
\* ledger stops growing and the active routes stay those of the first tick.
C34_NoFlappingWhenSteady ==
    (LastCall("suggest_reroutes") /\ Steady /\ TicksDone >= 2) => suggestions = <<>>

-----------------------------------------------------------------------------
(* Claims about what the search depends on *)

\* snapshot T with every component reported healthy
Healed(T) ==
    [T EXCEPT !.components =
        [i \in 1..Len(T.components) |-> Component(T.components[i].id, HEALTHY)]]

\* the components of T that are not healthy
Unhealthy(T) ==
    {T.components[i].id : i \in {j \in 1..Len(T.components) :
                                    T.components[j].status # HEALTHY}}

FirstLink(T, a, b) ==
    LET joining == {i \in 1..Len(T.links) :
                       LinkJoins(T.links[i], a, b) /\ T.links[i].status = HEALTHY}
    IN  CHOOSE i \in joining : \A j \in joining : i <= j

\* Paths P and Q leave the same node and end at the same node.  At the
\* node where they part, the link P takes is listed in T before the link
\* Q takes.
TakesEarlierLink(T, P, Q) ==
    LET parting == {k \in 2..Min(Len(P), Len(Q)) : P[k] # Q[k]}
        k == CHOOSE x \in parting : \A y \in parting : x <= y
    IN  FirstLink(T, P[k - 1], P[k]) < FirstLink(T, Q[k - 1], Q[k])

-----------------------------------------------------------------------------
(* Claims about the search step by step *)

\* the calls of dfs_routes that have not returned yet, outermost first
DfsStack == IF Searching THEN callers[Searcher].stack ELSE <<>>

-----------------------------------------------------------------------------
(* Claims about the two directions of a path *)

\* C36: route search is symmetric in its endpoints: the route along a path
\* and the route along the reversed path carry the same total latency and
\* the same quality tier.
C36_SameRouteBothWays ==
    LastCall("walk") =>
        /\ call.total_latency = call.reversed_total_latency
        /\ call.quality = call.reversed_quality

=============================================================================
